---------------------------- MODULE Spec2Model ----------------------------
(***************************************************************************)
(* A model of the news back end (app/api/news, app/api/user): the          *)
(* read-session store (open_read / close_read), the article handlers, the  *)
(* recommendation normalizer, the home feed assembler, the hourly usage    *)
(* bins, the mood snapshot, the category classifiers, batch ingest, the     *)
(* article, field and hourly statistics and the user sessions.             *)
(*                                                                         *)
(* Each subsystem has its own specification over the shared variables; the *)
(* variables of the other subsystems stay at their idle values.            *)
(*   SpecRead      open_read / close_read, each call atomic                *)
(*   SpecReadConc  open_read split at its awaits, two request handlers     *)
(*   SpecNorm      _attach_attitudes_per_item applied to one payload       *)
(*   SpecNews      the handlers get_news, get_news_complete and get_bundle *)
(*   SpecFeed      get_home_feed, called once on a data snapshot           *)
(*   SpecFeedTwice get_home_feed, called twice on one data snapshot        *)
(*   SpecLocate    _attach_attitudes_per_item on payloads with several keys *)
(*   SpecUsage     UserService.usage_hourly on a set of user sessions       *)
(*   SpecMood      get_user_mood_snapshot on a set of mood events           *)
(*   SpecClassify  normalize_category and the feed's label expression       *)
(*   SpecIngest    ingest_events applied to one batch                       *)
(*   SpecStats     get_article_stats after any opens and closes             *)
(*   SpecField     get_user_field_stats on a set of reads                   *)
(*   SpecBand      get_user_mood_snapshot on one mood event of today        *)
(*   SpecHourly    get_user_hourly_activity on a set of reads               *)
(*   SpecFeedFill  get_home_feed on snapshots with more read articles       *)
(*   SpecAgree     the four category classifiers on one row                 *)
(*   SpecSession   UserService.start_session / end_session                  *)
(*                                                                         *)
(* Category labels are written in English: Economy, Politics, Society,     *)
(* Culture, World, Science and Other stand for the source's labels, and    *)
(* "life/culture", "IT/science", "international" for its aliases.          *)
(***************************************************************************)
EXTENDS Integers, Sequences, FiniteSets, TLC

VARIABLES
    reads,      \* table article_reads: sequence of rows, row id = index
    events,     \* table user_events: sequence of appended events
    clock,      \* datetime.utcnow(), in seconds
    resp,       \* what the last completed read handler returned
    pc,         \* per request handler: where an open_read call stands
    existing,   \* per request handler: the row id open_read's lookup found (0: none)
    corpus,     \* ids of the rows of original_article
    failing,    \* ids for which the article query fails (a store error)
    payload,    \* the items argument of _attach_attitudes_per_item
    out,        \* what _attach_attitudes_per_item did with it
    http,       \* the last response of get_news / get_news_complete
    articles,   \* table original_article: id -> category, published_at, scraped_at
    recent_reads, \* article id -> the user's article_reads rows opened in the last day
    uid,        \* get_home_feed's user
    today,      \* date.today()
    exclude_read, \* get_home_feed's flag
    fpc,        \* where get_home_feed stands
    plan,       \* its locals seed, read_counts, limits, max_limit
    bucket,     \* its local bucket: category -> entries appended so far
    response,   \* what it returned
    previous,   \* what the previous call on the same data returned
    usage,      \* UserService.usage_hourly: user_sessions, now, the arguments, the bins
    mood,       \* get_user_mood_snapshot: user_events of the user, now, days, the result
    classified, \* the category classifiers: an article's id and category, the labels
    ingested,   \* ingest_events: the batch and the returned count
    stats,      \* get_article_stats: the article asked about and the answer
    field,      \* get_user_field_stats: the rows it reads and the answer
    hourly,     \* get_user_hourly_activity: the open events it reads and the answer
    sessions    \* table user_sessions and what end_session returned

readVars == <<reads, events, clock, resp, pc, existing>>
normVars == <<corpus, failing, payload, out>>
newsVars == <<http>>
feedVars == <<articles, recent_reads, uid, today, exclude_read, fpc, plan, bucket, response, previous>>
laterVars == <<usage, mood, classified, ingested>>
statVars == <<stats, field, hourly, sessions>>
notReadVars == <<normVars, newsVars, feedVars, laterVars, statVars>>     \* what the read handlers never touch
notFeedVars == <<readVars, normVars, newsVars, laterVars, statVars>>     \* what get_home_feed never touches
notNormVars == <<readVars, newsVars, feedVars, laterVars, statVars>>     \* what the normalizer never touches
vars == <<reads, events, clock, resp, pc, existing, corpus, failing, payload, out, http,
          articles, recent_reads, uid, today, exclude_read, fpc, plan, bucket, response,
          previous, usage, mood, classified, ingested,
          stats, field, hourly, sessions>>

----------------------------------------------------------------------------
(* Bounds of the read-session model *)
MaxRows == 2        \* article_reads rows the model lets be inserted
MaxEvents == 3      \* user_events rows the model lets be appended
MaxClock == 2       \* seconds the model lets the clock advance

Users == {1, 2}
ReadArticles == {"eco001", "pol001"}
Handlers == {"h1", "h2"}
ConcUsers == {1}              \* the racing requests come from one user
ConcArticles == {"eco001"}    \* ... and are for one article

NoTime == -1        \* a NULL timestamp column
NoRow == 0          \* scalar_one_or_none() returned None
NotFound == -1      \* close_read's return value for a missing session

----------------------------------------------------------------------------
(* article_reads / user_events rows *)

ArticleRead(u, a, now) ==
    [user_id |-> u, article_id |-> a, opened_at |-> now,
     closed_at |-> NoTime, dwell_seconds |-> 0]

OpenEvent(u, a, now) ==
    [user_id |-> u, event_type |-> "article_open", article_id |-> a,
     dwell_seconds |-> 0, ts |-> now]

CloseEvent(u, a, dwell, now) ==
    [user_id |-> u, event_type |-> "article_close", article_id |-> a,
     dwell_seconds |-> dwell, ts |-> now]

Max(a, b) == IF a >= b THEN a ELSE b

\* open_read's SELECT: the unclosed rows of (user, article)
OpenRows(u, a) ==
    {i \in DOMAIN reads : /\ reads[i].user_id = u
                          /\ reads[i].article_id = a
                          /\ reads[i].closed_at = NoTime}

\* ... ORDER BY opened_at DESC LIMIT 1: any row with the latest opened_at
ExistingCandidates(u, a) ==
    {i \in OpenRows(u, a) :
        \A j \in OpenRows(u, a) : reads[j].opened_at <= reads[i].opened_at}

\* a variant that selects by the read id alone
CloseMatchByIdOnly(u, a, rid) == IF rid \in DOMAIN reads THEN rid ELSE NoRow

\* close_read's SELECT by (id, user, article)
CloseMatch(u, a, rid) ==
    IF /\ rid \in DOMAIN reads
       /\ reads[rid].user_id = u
       /\ reads[rid].article_id = a
    THEN rid ELSE NoRow

\* row.closed_at = now; row.dwell_seconds = max(0, now - (opened_at or now))
ClosedRow(row, now) ==
    LET opened_at == IF row.opened_at = NoTime THEN now ELSE row.opened_at
    IN [row EXCEPT !.closed_at = now,
                   !.dwell_seconds = Max(0, now - opened_at)]

----------------------------------------------------------------------------
(* open_read after its lookup returned `found`: return the open session, or *)
(* insert a row and an article_open event and commit both                   *)

\* a variant that ignores what the lookup found
OpenFinishAlwaysInsert(u, a, found, now) ==
    /\ Len(reads) < MaxRows
    /\ Len(events) < MaxEvents
    /\ reads' = Append(reads, ArticleRead(u, a, now))
    /\ events' = Append(events, OpenEvent(u, a, now))
    /\ resp' = [op |-> "open", user |-> u, article |-> a,
                read_id |-> Len(reads) + 1, ret |-> Len(reads) + 1, created |-> TRUE]

\* a variant that looks again when it inserts (an atomic get-or-create)
OpenFinishUpsert(u, a, found, now) ==
    IF found # NoRow \/ OpenRows(u, a) # {}
    THEN /\ \E r \in (IF found # NoRow THEN {found} ELSE ExistingCandidates(u, a)) :
              resp' = [op |-> "open", user |-> u, article |-> a,
                       read_id |-> r, ret |-> r, created |-> FALSE]
         /\ UNCHANGED <<reads, events>>
    ELSE /\ Len(reads) < MaxRows
         /\ Len(events) < MaxEvents
         /\ reads' = Append(reads, ArticleRead(u, a, now))
         /\ events' = Append(events, OpenEvent(u, a, now))
         /\ resp' = [op |-> "open", user |-> u, article |-> a,
                     read_id |-> Len(reads) + 1, ret |-> Len(reads) + 1, created |-> TRUE]

\* a variant that commits the row at the flush, before the event is added
OpenFinishCommitAtFlush(u, a, found, now) ==
    IF found # NoRow
    THEN /\ resp' = [op |-> "open", user |-> u, article |-> a,
                     read_id |-> found, ret |-> found, created |-> FALSE]
         /\ UNCHANGED <<reads, events>>
    ELSE /\ Len(reads) < MaxRows
         /\ reads' = Append(reads, ArticleRead(u, a, now))
         /\ UNCHANGED events
         /\ resp' = [op |-> "open", user |-> u, article |-> a,
                     read_id |-> Len(reads) + 1, ret |-> Len(reads) + 1, created |-> TRUE]

OpenFinish(u, a, found, now) ==
    IF found # NoRow
    THEN /\ resp' = [op |-> "open", user |-> u, article |-> a,
                     read_id |-> found, ret |-> found, created |-> FALSE]
         /\ UNCHANGED <<reads, events>>
    ELSE /\ Len(reads) < MaxRows
         /\ Len(events) < MaxEvents
         /\ reads' = Append(reads, ArticleRead(u, a, now))
         /\ events' = Append(events, OpenEvent(u, a, now))
         /\ resp' = [op |-> "open", user |-> u, article |-> a,
                     read_id |-> Len(reads) + 1, ret |-> Len(reads) + 1, created |-> TRUE]

\* what open_read's SELECT ... LIMIT 1 may return
Lookup(u, a) == IF OpenRows(u, a) = {} THEN {NoRow} ELSE ExistingCandidates(u, a)

\* open_read run to completion: lookup, then return or insert
OpenRead(u, a) ==
    /\ \E found \in Lookup(u, a) : OpenFinish(u, a, found, clock)
    /\ UNCHANGED <<clock, pc, existing, notReadVars>>

\* close_read run to completion
CloseRead(u, a, rid) ==
    /\ LET row == CloseMatch(u, a, rid) IN
         IF row = NoRow
         THEN /\ resp' = [op |-> "close", user |-> u, article |-> a,
                          read_id |-> rid, ret |-> NotFound, created |-> FALSE]
              /\ UNCHANGED <<reads, events>>
         ELSE /\ Len(events) < MaxEvents
              /\ reads' = [reads EXCEPT ![row] = ClosedRow(reads[row], clock)]
              /\ events' = Append(events,
                                  CloseEvent(u, a, ClosedRow(reads[row], clock).dwell_seconds, clock))
              /\ resp' = [op |-> "close", user |-> u, article |-> a, read_id |-> rid,
                          ret |-> ClosedRow(reads[row], clock).dwell_seconds,
                          created |-> FALSE]
    /\ UNCHANGED <<clock, pc, existing, notReadVars>>

\* time passes between requests
Tick ==
    /\ clock < MaxClock
    /\ clock' = clock + 1
    /\ UNCHANGED <<reads, events, resp, pc, existing, notReadVars>>

\* the other subsystems, not in use
NormIdle ==
    /\ corpus = {}
    /\ failing = {}
    /\ payload = [t |-> "null"]
    /\ out = [status |-> "none"]

NewsIdle == http = [op |-> "none"]

FeedIdle ==
    /\ articles = <<>>
    /\ recent_reads = <<>>
    /\ uid = 0
    /\ today = 0
    /\ exclude_read = FALSE
    /\ fpc = "idle"
    /\ plan = [seed |-> 0]
    /\ bucket = <<>>
    /\ response = [seed |-> 0]
    /\ previous = [seed |-> 0]

Idle == [op |-> "idle"]

LaterIdle ==
    /\ usage = Idle
    /\ mood = Idle
    /\ classified = Idle
    /\ ingested = Idle

StatIdle ==
    /\ stats = Idle
    /\ field = Idle
    /\ hourly = Idle
    /\ sessions = Idle

NoLookup == [user |-> 0, article |-> "", found |-> NoRow, now |-> 0]

NoResp == [op |-> "none", user |-> 0, article |-> "", read_id |-> 0, ret |-> 0,
           created |-> FALSE]

\* empty tables, no request in flight
ReadIdle ==
    /\ reads = <<>>
    /\ events = <<>>
    /\ clock = 0
    /\ resp = NoResp
    /\ pc = [h \in Handlers |-> "idle"]
    /\ existing = [h \in Handlers |-> NoLookup]

InitRead ==
    /\ ReadIdle
    /\ NormIdle
    /\ NewsIdle
    /\ FeedIdle
    /\ LaterIdle
    /\ StatIdle

NextRead ==
    \/ \E u \in Users, a \in ReadArticles : OpenRead(u, a)
    \/ \E u \in Users, a \in ReadArticles, rid \in 1..(MaxRows + 1) : CloseRead(u, a, rid)
    \/ Tick

SpecRead == InitRead /\ [][NextRead]_vars

----------------------------------------------------------------------------
(* open_read as the server runs it: the lookup and the insert are separate  *)
(* awaits, and other handlers run between them                              *)

OpenLookup(h, u, a) ==
    /\ pc[h] = "idle"
    /\ \E found \in Lookup(u, a) :
          existing' = [existing EXCEPT
                          ![h] = [user |-> u, article |-> a, found |-> found, now |-> clock]]
    /\ pc' = [pc EXCEPT ![h] = "looked"]
    /\ UNCHANGED <<reads, events, clock, resp, notReadVars>>

OpenCommit(h) ==
    /\ pc[h] = "looked"
    /\ OpenFinish(existing[h].user, existing[h].article, existing[h].found, existing[h].now)
    /\ pc' = [pc EXCEPT ![h] = "idle"]
    /\ existing' = [existing EXCEPT ![h] = NoLookup]
    /\ UNCHANGED <<clock, notReadVars>>

CloseReadConc(u, a, rid) == CloseRead(u, a, rid)

NextReadConc ==
    \/ \E h \in Handlers, u \in ConcUsers, a \in ConcArticles : OpenLookup(h, u, a)
    \/ \E h \in Handlers : OpenCommit(h)
    \/ \E u \in ConcUsers, a \in ConcArticles, rid \in 1..(MaxRows + 1) : CloseReadConc(u, a, rid)
    \/ Tick

SpecReadConc == InitRead /\ [][NextReadConc]_vars


----------------------------------------------------------------------------
(* JSON values as Python holds them *)

JNull == [t |-> "null"]
JStr(x) == [t |-> "str", s |-> x]
JInt(x) == [t |-> "int", n |-> x]
JList(q) == [t |-> "list", items |-> q]
JDict(f) == [t |-> "dict", fields |-> f]

\* bool(v)
Truthy(v) ==
    CASE v.t = "null" -> FALSE
      [] v.t = "str" -> v.s # ""
      [] v.t = "int" -> v.n # 0
      [] v.t = "list" -> Len(v.items) > 0
      [] v.t = "dict" -> DOMAIN v.fields # {}

\* d.get(k), for a dict d
PyGet(d, k) == IF k \in DOMAIN d.fields THEN d.fields[k] ELSE JNull

\* a or b
PyOr(a, b) == IF Truthy(a) THEN a ELSE b

Min(S) == CHOOSE x \in S : \A y \in S : x <= y

----------------------------------------------------------------------------
(* service.get_article as the normalizer sees it *)

\* the attitude columns of an article row: the attitude CASE coalesces to a
\* label, the confidence of an article without a sentiment row is NULL
AttitudeRow(aid) ==
    IF aid = "eco001"
    THEN [attitude |-> JStr("favorable"), attitude_confidence |-> JInt(90)]
    ELSE [attitude |-> JStr("neutral"), attitude_confidence |-> JNull]

\* "ok" with the row, KeyError for no row, or the store's own failure
get_article(aid) ==
    IF aid \in failing THEN [result |-> "store_error"]
    ELSE IF aid \notin corpus THEN [result |-> "KeyError"]
    ELSE [result |-> "ok", art |-> AttitudeRow(aid)]

----------------------------------------------------------------------------
(* _attach_attitudes_per_item *)

FirstKeys == <<"recommendations", "related_topics", "similar_articles", "articles", "items">>
NestedKeys == <<"recommendations", "related_topics">>

NoArray == [parent |-> "none", key |-> "", arr |-> <<>>]

\* a variant that follows same-key nesting under every known key
locate_arrayNestAnyKey(container) ==
    IF container.t = "list" THEN [parent |-> "root", key |-> "", arr |-> container.items]
    ELSE IF container.t # "dict" THEN NoArray
    ELSE
      LET first == {i \in DOMAIN FirstKeys : PyGet(container, FirstKeys[i]).t = "list"}
          nested == {i \in DOMAIN FirstKeys :
                        /\ PyGet(container, FirstKeys[i]).t = "dict"
                        /\ PyGet(PyGet(container, FirstKeys[i]), FirstKeys[i]).t = "list"}
      IN IF first # {}
         THEN [parent |-> "top", key |-> FirstKeys[Min(first)],
               arr |-> PyGet(container, FirstKeys[Min(first)]).items]
         ELSE IF nested # {}
         THEN [parent |-> "inner", key |-> FirstKeys[Min(nested)],
               arr |-> PyGet(PyGet(container, FirstKeys[Min(nested)]),
                             FirstKeys[Min(nested)]).items]
         ELSE NoArray

\* a variant that tries the same-key nesting before the direct keys
locate_arrayNestedFirst(container) ==
    IF container.t = "list" THEN [parent |-> "root", key |-> "", arr |-> container.items]
    ELSE IF container.t # "dict" THEN NoArray
    ELSE
      LET first == {i \in DOMAIN FirstKeys : PyGet(container, FirstKeys[i]).t = "list"}
          nested == {i \in DOMAIN NestedKeys :
                        /\ PyGet(container, NestedKeys[i]).t = "dict"
                        /\ PyGet(PyGet(container, NestedKeys[i]), NestedKeys[i]).t = "list"}
      IN IF nested # {}
         THEN [parent |-> "inner", key |-> NestedKeys[Min(nested)],
               arr |-> PyGet(PyGet(container, NestedKeys[Min(nested)]),
                             NestedKeys[Min(nested)]).items]
         ELSE IF first # {}
         THEN [parent |-> "top", key |-> FirstKeys[Min(first)],
               arr |-> PyGet(container, FirstKeys[Min(first)]).items]
         ELSE NoArray

\* locate_array: (parent, key, arr); parent is the root list itself ("root"),
\* the container ("top"), or container[key] ("inner")
locate_array(container) ==
    IF container.t = "list" THEN [parent |-> "root", key |-> "", arr |-> container.items]
    ELSE IF container.t # "dict" THEN NoArray
    ELSE
      LET first == {i \in DOMAIN FirstKeys : PyGet(container, FirstKeys[i]).t = "list"}
          nested == {i \in DOMAIN NestedKeys :
                        /\ PyGet(container, NestedKeys[i]).t = "dict"
                        /\ PyGet(PyGet(container, NestedKeys[i]), NestedKeys[i]).t = "list"}
      IN IF first # {}
         THEN [parent |-> "top", key |-> FirstKeys[Min(first)],
               arr |-> PyGet(container, FirstKeys[Min(first)]).items]
         ELSE IF nested # {}
         THEN [parent |-> "inner", key |-> NestedKeys[Min(nested)],
               arr |-> PyGet(PyGet(container, NestedKeys[Min(nested)]),
                             NestedKeys[Min(nested)]).items]
         ELSE NoArray

\* obj = {"article_id": it} if isinstance(it, str) else dict(it);
\* dict(it) raises TypeError for a value that is no mapping
CanCopy(it) == it.t \in {"str", "dict"}
ElementObj(it) == IF it.t = "str" THEN JDict("article_id" :> it) ELSE it

\* aid = obj.get("article_id") or obj.get("id")
ElementId(obj) == PyOr(PyGet(obj, "article_id"), PyGet(obj, "id"))

\* ids: the string ids of the elements, in order, one per element
RECURSIVE CollectIds(_)
CollectIds(objs) ==
    IF objs = <<>> THEN <<>>
    ELSE LET aid == ElementId(Head(objs))
         IN (IF aid.t = "str" THEN <<aid.s>> ELSE <<>>) \o CollectIds(Tail(objs))

\* a variant in which the first failing lookup ends the lookup loop
AttitudeMapKeysUntilFailure(ids) ==
    {ids[i] : i \in {j \in DOMAIN ids :
                        \A k \in 1..j : get_article(ids[k]).result = "ok"}}

\* attitude_map's keys: the ids whose get_article call returned
AttitudeMapKeys(ids) ==
    {ids[i] : i \in {j \in DOMAIN ids : get_article(ids[j]).result = "ok"}}

\* the injection loop's test `aid and aid in attitude_map` hashes aid
Unhashable(aid) == Truthy(aid) /\ aid.t \in {"list", "dict"}

\* obj["attitude"] = att; obj["attitude_confidence"] = conf, when the id is mapped
Inject(obj, keys) ==
    LET aid == ElementId(obj)
    IN IF aid.t = "str" /\ Truthy(aid) /\ aid.s \in keys
       THEN JDict(("attitude" :> get_article(aid.s).art.attitude)
                  @@ ("attitude_confidence" :> get_article(aid.s).art.attitude_confidence)
                  @@ obj.fields)
       ELSE obj

\* a variant that drops the level of nesting when it writes back
ReassembleFlat(items, loc, normalized) ==
    IF loc.parent = "root" THEN JList(normalized)
    ELSE JDict((loc.key :> JList(normalized)) @@ items.fields)

\* parent[key] = normalized; return items  (or the bare list for a root list)
Reassemble(items, loc, normalized) ==
    IF loc.parent = "root" THEN JList(normalized)
    ELSE IF loc.parent = "top"
    THEN JDict((loc.key :> JList(normalized)) @@ items.fields)
    ELSE JDict((loc.key :> JDict((loc.key :> JList(normalized))
                                 @@ items.fields[loc.key].fields))
               @@ items.fields)

Returned(v, lookups) == [status |-> "returned", value |-> v, lookups |-> lookups]
Raised(e) == [status |-> "raised", error |-> e]

attach_attitudes_per_item(items) ==
    IF items.t = "null" THEN Returned(items, <<>>)
    ELSE
      LET loc == locate_array(items) IN
      IF loc.parent = "none" THEN Returned(items, <<>>)
      ELSE IF \E i \in DOMAIN loc.arr : ~CanCopy(loc.arr[i]) THEN Raised("TypeError")
      ELSE
        LET objs == [i \in DOMAIN loc.arr |-> ElementObj(loc.arr[i])]
            ids == CollectIds(objs)
            keys == AttitudeMapKeys(ids)
        IN IF \E i \in DOMAIN objs : Unhashable(ElementId(objs[i]))
           THEN Raised("TypeError")
           ELSE Returned(Reassemble(items, loc, [i \in DOMAIN objs |-> Inject(objs[i], keys)]),
                         ids)

----------------------------------------------------------------------------
(* The payloads the normalizer is applied to *)

MaxArr == 2         \* longest target array

NormIds == {"eco001", "pol001"}

Elements ==
    { JStr("eco001"), JStr("pol001"), JInt(7), JNull,
      JDict("article_id" :> JStr("eco001")),
      JDict(("id" :> JStr("pol001")) @@ ("title" :> JStr("t"))),
      JDict(("article_id" :> JStr("")) @@ ("id" :> JStr("eco001"))),
      JDict(("article_id" :> JStr("pol001")) @@ ("attitude" :> JStr("old"))),
      JDict("title" :> JStr("t")) }

RECURSIVE Arrays(_)
Arrays(n) ==
    IF n = 0 THEN {<<>>}
    ELSE Arrays(n - 1) \cup {Append(q, e) : q \in {p \in Arrays(n - 1) : Len(p) = n - 1},
                                             e \in Elements}

Sibling == "total" :> JInt(3)

Shapes(arr) ==
    { JList(arr) }
    \cup { JDict((FirstKeys[i] :> JList(arr)) @@ Sibling) : i \in DOMAIN FirstKeys }
    \cup { JDict((NestedKeys[i] :> JDict((NestedKeys[i] :> JList(arr))
                                         @@ ("model_version" :> JStr("v1"))))
                 @@ Sibling) : i \in DOMAIN NestedKeys }
    \cup { JDict(("items" :> JDict("items" :> JList(arr))) @@ Sibling) }

Unrecognized ==
    { JNull, JStr("eco001"), JInt(7), JDict(Sibling),
      JDict("recommendations" :> JDict("recommendations" :> JStr("eco001"))) }

Payloads == Unrecognized \cup UNION {Shapes(arr) : arr \in Arrays(MaxArr)}

InitNorm ==
    /\ corpus \in SUBSET NormIds
    /\ failing \in SUBSET {"pol001"}
    /\ payload \in Payloads
    /\ out = [status |-> "none"]
    /\ ReadIdle
    /\ NewsIdle
    /\ FeedIdle
    /\ LaterIdle
    /\ StatIdle

Normalize ==
    /\ out.status = "none"
    /\ out' = attach_attitudes_per_item(payload)
    /\ UNCHANGED <<corpus, failing, payload, notNormVars>>

NextNorm == Normalize

SpecNorm == InitNorm /\ [][NextNorm]_vars

----------------------------------------------------------------------------
(* Payloads with several known keys at once *)

FirstKeySet == {FirstKeys[i] : i \in DOMAIN FirstKeys}

\* what a known key of the payload holds
KeyKinds == {"absent", "array", "nested_array", "nested_scalar", "scalar"}

KeyValue(k, kind) ==
    CASE kind = "array" -> JList(<<JStr("eco001")>>)
      [] kind = "nested_array" ->
            JDict((k :> JList(<<JStr("pol001")>>)) @@ ("model_version" :> JStr("v1")))
      [] kind = "nested_scalar" -> JDict(k :> JStr("eco001"))
      [] OTHER -> JStr("eco001")

KeyedPayload(kinds) ==
    JDict([k \in {key \in FirstKeySet : kinds[key] # "absent"} |-> KeyValue(k, kinds[k])]
          @@ Sibling)

KeyedPayloads == {KeyedPayload(kinds) : kinds \in [FirstKeySet -> KeyKinds]}

InitLocate ==
    /\ corpus \in SUBSET NormIds
    /\ failing \in SUBSET {"pol001"}
    /\ payload \in KeyedPayloads \cup Unrecognized \cup {JList(<<JStr("eco001")>>)}
    /\ out = [status |-> "none"]
    /\ ReadIdle
    /\ NewsIdle
    /\ FeedIdle
    /\ LaterIdle
    /\ StatIdle

NextLocate == Normalize

SpecLocate == InitLocate /\ [][NextLocate]_vars

----------------------------------------------------------------------------
(* The article handlers of the router *)

Http200 == 200
Http404 == 404
Http500 == 500

\* close_article: a negative dwell is answered 404, any other 200
close_article(dwell) == IF dwell < 0 THEN Http404 ELSE Http200

NewsIds == {"eco001", "pol001", "zzz999"}

\* the item get_article returns for a stored article
ArticleItem(aid) ==
    JDict(("id" :> JStr(aid)) @@ ("attitude" :> AttitudeRow(aid).attitude)
          @@ ("attitude_confidence" :> AttitudeRow(aid).attitude_confidence))

\* what the handlers do with get_article's outcome: any exception, KeyError
\* included, is answered 500; a falsy item is answered 404
ArticleOrError(aid) ==
    IF get_article(aid).result # "ok" THEN [status |-> Http500]
    ELSE IF ~Truthy(ArticleItem(aid)) THEN [status |-> Http404]
    ELSE [status |-> Http200, item |-> ArticleItem(aid)]

GetNews(aid) ==
    /\ http' = [op |-> "get_news", article_id |-> aid] @@ ArticleOrError(aid)
    /\ UNCHANGED <<readVars, normVars, feedVars, laterVars, statVars>>

\* _fetch_recommendations' fallback for an unset base url or any exception
FallbackReco ==
    JDict(("similar_articles" :> JList(<<>>)) @@ ("related_topics" :> JList(<<>>)))

\* bodies the recommender may answer with
RecoBodies ==
    { JDict(("similar_articles" :> JList(<<JStr("eco001")>>))
            @@ ("related_topics" :> JDict("related_topics" :> JList(<<JStr("pol001")>>)))),
      JDict(("similar" :> JDict("recommendations" :> JList(<<JDict("id" :> JStr("pol001"))>>)))
            @@ ("topics" :> JList(<<>>))),
      JDict(("similar_articles" :> JList(<<JInt(7)>>)) @@ ("related_topics" :> JList(<<>>))),
      JDict("similar" :> JNull),
      JList(<<JStr("eco001")>>) }

\* how a call to an external collaborator ends: the base url is not configured,
\* the call times out, the transport fails, the answer is a non-success status
\* (raise_for_status), or it is answered with a body
CallFailures == {"timeout", "transport_error", "http_error"}
CallKinds == CallFailures \cup {"unset", "ok"}

CallOutcome(kind, body) == [kind |-> kind, body |-> IF kind = "ok" THEN body ELSE JNull]

RecoCalls == {CallOutcome(k, b) : k \in CallKinds, b \in RecoBodies}

PyRaised == [t |-> "raised"]

\* a variant without the try/except around the call
fetch_recommendationsNoCatch(call) ==
    IF call.kind = "unset" THEN FallbackReco
    ELSE IF call.kind = "ok" THEN call.body
    ELSE PyRaised

\* _fetch_recommendations: the body, or the fallback when the base url is unset
\* or the call raises
fetch_recommendations(call) ==
    IF call.kind = "ok" THEN call.body ELSE FallbackReco

FetchOutcomes == {fetch_recommendations(call) : call \in RecoCalls}

EmptyDict == JDict(<<>>)

GetNewsComplete(aid) ==
    /\ \E call \in RecoCalls :
         LET art == ArticleOrError(aid)
             reco == fetch_recommendations(call)
             req == [op |-> "get_news_complete", article_id |-> aid, reco_call |-> call.kind]
         IN
         IF art.status # Http200
         THEN http' = [op |-> "get_news_complete", article_id |-> aid] @@ art
         ELSE IF reco.t # "dict"        \* an exception, or reco.get raises AttributeError
         THEN http' = req @@ [status |-> Http500]
         ELSE
           LET raw_similar == PyOr(PyOr(PyGet(reco, "similar"), PyGet(reco, "similar_articles")),
                                   EmptyDict)
               raw_topics == PyOr(PyOr(PyGet(reco, "topics"), PyGet(reco, "related_topics")),
                                  EmptyDict)
               similar == attach_attitudes_per_item(raw_similar)
               topics == attach_attitudes_per_item(raw_topics)
           IN IF similar.status = "raised" \/ topics.status = "raised"
              THEN http' = req @@ [status |-> Http500]
              ELSE http' = req @@ [status |-> Http200, item |-> art.item,
                                   similar |-> similar.value, topics |-> topics.value]
    /\ UNCHANGED <<readVars, normVars, feedVars, laterVars, statVars>>

----------------------------------------------------------------------------
(* bundle_article *)

\* original_article.category and published_at of the stored articles ("" is a
\* NULL or empty category)
NewsCategory(id) == IF id = "zzz999" THEN "" ELSE "Economy"
NewsPublished(id) == IF id = "eco001" THEN 1 ELSE IF id = "pol001" THEN 2 ELSE 3

\* ORDER BY published_at DESC
LatestFirst(S) ==
    [i \in 1..Cardinality(S) |->
        CHOOSE id \in S :
           Cardinality({o \in S : NewsPublished(o) > NewsPublished(id)}) = i - 1]

\* _fallback_reco: the latest other articles, of the same category when the
\* article has one (the store holds fewer than n = 5 articles)
fallback_reco(article_id, category) ==
    LET S == {id \in corpus : /\ id # article_id
                              /\ (category # "" => NewsCategory(id) = category)}
        rows == LatestFirst(S)
    IN JDict(("items" :> JList([i \in DOMAIN rows |-> JDict("id" :> JStr(rows[i]))]))
             @@ ("model_version" :> JStr("fallback-category-latest")))

SentiBodies == { JDict("label" :> JStr("favorable")) }
CleanseBodies == { JDict(("summary" :> JStr("s")) @@ ("cleaned_html" :> JStr("h"))), JNull }
BundleRecoBodies ==
    { JDict("items" :> JList(<<JDict("id" :> JStr("pol001"))>>)),
      JDict("model_version" :> JStr("v1")),
      EmptyDict,
      JList(<<JStr("eco001")>>) }

SentiCalls == {CallOutcome(k, b) : k \in CallKinds, b \in SentiBodies}
CleanseCalls == {CallOutcome(k, b) : k \in CallKinds, b \in CleanseBodies}
BundleRecoCalls == {CallOutcome(k, b) : k \in CallKinds, b \in BundleRecoBodies}

\* senti = clnz = reco = None; the url unset leaves None, an exception of the
\* call sets None, an answer sets r.json()
Collaborator(call) == IF call.kind = "ok" THEN call.body ELSE JNull

\* get_bundle / bundle_article: get_article's exception is not caught
BundleArticle(aid) ==
    /\ \E sc \in SentiCalls, cc \in CleanseCalls, rc \in BundleRecoCalls :
         LET senti == Collaborator(sc)
             clnz == Collaborator(cc)
             answered == Collaborator(rc)
             reco == IF Truthy(answered) THEN answered
                     ELSE fallback_reco(aid, NewsCategory(aid))
             req == [op |-> "bundle", article_id |-> aid, senti_call |-> sc.kind,
                     clnz_call |-> cc.kind, reco_call |-> rc.kind]
         IN
         IF get_article(aid).result # "ok" THEN http' = req @@ [status |-> Http500]
         ELSE IF reco.t # "dict"        \* reco.get raises AttributeError
         THEN http' = req @@ [status |-> Http500]
         ELSE http' = req @@
                [status |-> Http200, item |-> ArticleItem(aid),
                 sentiment |-> senti,
                 summary |-> PyGet(PyOr(clnz, EmptyDict), "summary"),
                 cleaned_html |-> PyGet(PyOr(clnz, EmptyDict), "cleaned_html"),
                 recommendations |-> IF "items" \in DOMAIN reco.fields
                                     THEN reco.fields["items"] ELSE JList(<<>>)]
    /\ UNCHANGED <<readVars, normVars, feedVars, laterVars, statVars>>

InitNews ==
    /\ corpus \in SUBSET NewsIds
    /\ failing \in SUBSET {"pol001"}
    /\ payload = JNull
    /\ out = [status |-> "none"]
    /\ ReadIdle
    /\ NewsIdle
    /\ FeedIdle
    /\ LaterIdle
    /\ StatIdle

NextNews ==
    \/ \E aid \in NewsIds : GetNews(aid)
    \/ \E aid \in NewsIds : GetNewsComplete(aid)
    \/ \E aid \in NewsIds : BundleArticle(aid)

SpecNews == InitNews /\ [][NextNews]_vars

----------------------------------------------------------------------------
(* get_home_feed: the data it reads *)

DISPLAY_CATEGORIES == <<"Economy", "Politics", "Society", "Culture", "World", "Science">>
Display == {DISPLAY_CATEGORIES[i] : i \in DOMAIN DISPLAY_CATEGORIES}

\* code-point order of the source's labels, which sorted() compares:
\* Economy < Science < Culture < Society < World < Politics
LexRank ==
    ("Economy" :> 1) @@ ("Science" :> 2) @@ ("Culture" :> 3)
    @@ ("Society" :> 4) @@ ("World" :> 5) @@ ("Politics" :> 6)

NoCategory == "NULL"    \* a NULL category column
NoAge == -1             \* a NULL timestamp column

PolIds == {"pol001", "pol002", "pol003", "pol004"}
OtherIds == {"eco001", "n00001", "n00002", "n00003"}
FeedIds == PolIds \cup OtherIds
GhostIds == {"pol900", "eco900"}     \* read, but no row in original_article

\* the first three characters of an id, lower-cased as ILIKE compares them
IlikePrefix(id) ==
    IF id \in PolIds \cup {"pol900"} THEN "pol"
    ELSE IF id \in {"eco001", "eco900"} THEN "eco"
    ELSE "n00"

\* its text order (ORDER BY id)
IdRank(id) ==
    IF id = "pol001" THEN 11
    ELSE IF id = "pol002" THEN 12
    ELSE IF id = "pol003" THEN 13
    ELSE IF id = "pol004" THEN 14
    ELSE IF id = "pol900" THEN 30
    ELSE IF id = "eco001" THEN 1
    ELSE IF id = "eco900" THEN 2
    ELSE IF id = "n00001" THEN 5
    ELSE IF id = "n00002" THEN 6
    ELSE 7

RawCategory(id) ==
    IF id \in PolIds THEN "Politics"
    ELSE IF id = "eco001" THEN "Economy"
    ELSE IF id = "n00001" THEN "IT"
    ELSE IF id = "n00002" THEN "sports"
    ELSE NoCategory

\* timestamps are days before CURRENT_DATE
Old == [published_at |-> 61, scraped_at |-> 2]      \* published before the window
Recent == [published_at |-> NoAge, scraped_at |-> 3]  \* no publish time, scraped lately
Edge == [published_at |-> 60, scraped_at |-> 60]    \* on the first day of the window
Undated == [published_at |-> NoAge, scraped_at |-> NoAge]

AgeChoices(id) ==
    IF id = "pol004" THEN {Old, Undated}
    ELSE IF id \in {"pol001", "pol002", "eco001"} THEN {Old, Recent}
    ELSE IF id = "n00001" THEN {Edge}
    ELSE {Recent}

\* article_reads rows of the user in the last day, per read article of the store
ReadChoices == {0, 1}
ReadableIds == {"pol001"}

\* ... and per read article that has no row: <<pol900, eco900>>
GhostChoices == { <<0, 0>>, <<9, 5>>, <<4, 10>> }

FeedDays == {1, 2}      \* date.today()
FeedUsers == {7}

FEED_LOOKBACK_DAYS == 60

\* hashlib.sha1(f"{user_id}:{d}").hexdigest()[:8], as a small hash
daily_seed(user_id, d) == (user_id * 31 + d * 17) % 97

\* md5(id::text || seed): a hash that orders the ids differently for each seed
IdNum(id) == IdRank(id)
Md5(id, seed) == (IdNum(id) * (2 * seed + 1) + seed) % 101

----------------------------------------------------------------------------
(* get_home_feed: the label expressions *)

PrefixLabel(p) ==
    IF p = "eco" THEN "Economy"
    ELSE IF p = "pol" THEN "Politics"
    ELSE IF p = "soc" THEN "Society"
    ELSE IF p = "lif" THEN "Culture"
    ELSE IF p = "sci" THEN "Science"
    ELSE IF p = "int" THEN "World"
    ELSE "NULL"

CategoryLabel(category) ==
    IF category \in {"Culture", "life/culture"} THEN "Culture"
    ELSE IF category \in {"Science", "IT/science", "IT"} THEN "Science"
    ELSE IF category \in {"international", "World"} THEN "World"
    ELSE IF category = "Economy" THEN "Economy"
    ELSE IF category = "Politics" THEN "Politics"
    ELSE IF category = "Society" THEN "Society"
    ELSE "NULL"

\* counts_sql's label: COALESCE(prefix CASE, category CASE), NULL when neither
\* matches; a.category is NULL when the read article has no row (LEFT JOIN)
counts_label(id) ==
    IF PrefixLabel(IlikePrefix(id)) # "NULL" THEN PrefixLabel(IlikePrefix(id))
    ELSE CategoryLabel(IF id \in DOMAIN articles THEN articles[id].category ELSE NoCategory)

\* label_case: prefix, then category, ELSE COALESCE(a.category, Other)
label_case(id) ==
    IF PrefixLabel(IlikePrefix(id)) # "NULL" THEN PrefixLabel(IlikePrefix(id))
    ELSE IF CategoryLabel(articles[id].category) # "NULL"
    THEN CategoryLabel(articles[id].category)
    ELSE IF articles[id].category = NoCategory THEN "Other"
    ELSE articles[id].category

----------------------------------------------------------------------------
(* get_home_feed: quota plan *)

RECURSIVE SumOver(_, _)
SumOver(f, S) ==
    IF S = {} THEN 0
    ELSE LET x == CHOOSE y \in S : TRUE IN f[x] + SumOver(f, S \ {x})

\* cnt_rows -> read_counts: COUNT(*) per label, rows without a label dropped,
\* then one entry per display category
ReadCounts ==
    [c \in Display |-> SumOver(recent_reads, {id \in DOMAIN recent_reads : counts_label(id) = c})]

\* a variant with the upper threshold off by one
QuotaOffByOne(rc) == IF rc > 10 THEN 6 ELSE IF rc >= 5 THEN 5 ELSE 3

\* limits[c] = 6 if rc >= 10 else (5 if rc >= 5 else 3)
Quota(rc) == IF rc >= 10 THEN 6 ELSE IF rc >= 5 THEN 5 ELSE 3

MaxOf(S) == CHOOSE x \in S : \A y \in S : y <= x

Plan ==
    /\ fpc = "start"
    /\ LET rc == ReadCounts
           limits == [c \in Display |-> Quota(rc[c])]
       IN plan' = [seed |-> daily_seed(uid, today), read_counts |-> rc, limits |-> limits,
                   max_limit |-> MaxOf({limits[c] : c \in Display})]
    /\ bucket' = [c \in Display |-> <<>>]
    /\ fpc' = "phase1"
    /\ UNCHANGED <<articles, recent_reads, uid, today, exclude_read, response, previous,
                   notFeedVars>>

----------------------------------------------------------------------------
(* get_home_feed: candidate queries *)

label_allow == Display

\* COALESCE(a.published_at, a.scraped_at)
Anchor(id) ==
    IF articles[id].published_at # NoAge THEN articles[id].published_at
    ELSE articles[id].scraped_at

\* date_clause: anchor >= CURRENT_DATE - :days days (false for a NULL anchor)
InWindow(id) == Anchor(id) # NoAge /\ Anchor(id) <= FEED_LOOKBACK_DAYS

\* exclude_clause: no article_reads row of the user for it in the last day
Unread(id) == ~(id \in DOMAIN recent_reads /\ recent_reads[id] > 0)

\* base of sql_1 / sql_2
Base(with_date, with_exclude) ==
    {id \in DOMAIN articles :
        /\ label_case(id) \in label_allow
        /\ (with_date => InWindow(id))
        /\ (with_exclude => Unread(id))}

\* ROW_NUMBER() OVER (PARTITION BY label ORDER BY md5(id || seed))
SeedRn(base, id) ==
    1 + Cardinality({o \in base : /\ label_case(o) = label_case(id)
                                  /\ Md5(o, plan.seed) < Md5(id, plan.seed)})

\* ORDER BY ts DESC NULLS LAST, id DESC
NewerFirst(a, b) ==
    \/ Anchor(a) # NoAge /\ Anchor(b) = NoAge
    \/ Anchor(a) # NoAge /\ Anchor(b) # NoAge /\ Anchor(a) < Anchor(b)
    \/ Anchor(a) = Anchor(b) /\ IdRank(a) > IdRank(b)

RecencyRn(base, id) ==
    1 + Cardinality({o \in base : label_case(o) = label_case(id) /\ NewerFirst(o, id)})

Row(id, rn) == [id |-> id, label |-> label_case(id), rn |-> rn]

\* a variant whose second query drops the exclusion together with the date clause
SeededRowsExcludeWithDateOnly(with_date) ==
    LET base == Base(with_date, exclude_read /\ with_date)
    IN {Row(id, SeedRn(base, id)) : id \in {x \in base : SeedRn(base, x) <= plan.max_limit}}

\* rows of sql_1 (with the date clause) and sql_2 (without)
SeededRows(with_date) ==
    LET base == Base(with_date, exclude_read)
    IN {Row(id, SeedRn(base, id)) : id \in {x \in base : SeedRn(base, x) <= plan.max_limit}}

\* a variant whose fill query still excludes what the user has read
RecencyRowsExcludingRead(max_need) ==
    LET base == Base(FALSE, exclude_read)
    IN {Row(id, RecencyRn(base, id)) : id \in {x \in base : RecencyRn(base, x) <= max_need}}

\* rows of fill_sql
RecencyRows(max_need) ==
    LET base == Base(FALSE, FALSE)
    IN {Row(id, RecencyRn(base, id)) : id \in {x \in base : RecencyRn(base, x) <= max_need}}

\* the sequences of k distinct elements of S (of all of S when it has fewer)
RECURSIVE Arrangements(_, _)
Arrangements(S, k) ==
    IF k = 0 \/ S = {} THEN {<<>>}
    ELSE UNION {{<<x>> \o p : p \in Arrangements(S \ {x}, k - 1)} : x \in S}

\* rows of one label, by row number
ByRn(S) ==
    [i \in 1..Cardinality(S) |-> CHOOSE r \in S : Cardinality({o \in S : o.rn < r.rn}) = i - 1]

Range(q) == {q[i] : i \in DOMAIN q}

\* The queries have no ORDER BY of their own, so the store may return the rows
\* in any order.  A row is only ever appended to the bucket of its own label, and
\* once the bucket holds limits[label] entries every further row of the label is
\* skipped: what the fill loop does depends only on which rows of each label come
\* first, as many as the bucket b still takes.  Those first rows are drawn in
\* every order, label by label; the rows after them follow by row number.
RECURSIVE OrdersFrom(_, _, _)
OrdersFrom(rows, b, i) ==
    IF i > Len(DISPLAY_CATEGORIES) THEN {<<>>}
    ELSE LET c == DISPLAY_CATEGORIES[i]
             mine == {r \in rows : r.label = c}
         IN {p \o ByRn(mine \ Range(p)) \o q :
                p \in Arrangements(mine, plan.limits[c] - Len(b[c])),
                q \in OrdersFrom(rows, b, i + 1)}

StoreOrders(rows, b) == OrdersFrom(rows, b, 1)

----------------------------------------------------------------------------
(* get_home_feed: the three fill phases and the response *)

\* a variant of the loop body without the quota test
AppendRowNoLimit(b, r, phase) ==
    IF r.label \in DOMAIN b
    THEN [b EXCEPT ![r.label] = Append(@, [id |-> r.id, phase |-> phase])]
    ELSE b

\* if c in bucket and len(bucket[c]) < limits[c]: bucket[c].append({...})
\* (phase records which loop appended the entry)
AppendRow(b, r, phase) ==
    IF r.label \in DOMAIN b /\ Len(b[r.label]) < plan.limits[r.label]
    THEN [b EXCEPT ![r.label] = Append(@, [id |-> r.id, phase |-> phase])]
    ELSE b

\* for r in rows: ...
RECURSIVE FillRows(_, _, _)
FillRows(b, rows, phase) ==
    IF rows = <<>> THEN b
    ELSE FillRows(AppendRow(b, Head(rows), phase), Tail(rows), phase)

\* shortages()
Shortages(b) ==
    [c \in {d \in Display : Len(b[d]) < plan.limits[d]} |-> plan.limits[c] - Len(b[c])]

FeedFrame == UNCHANGED <<articles, recent_reads, uid, today, exclude_read, plan, response,
                         previous, notFeedVars>>

Phase1 ==
    /\ fpc = "phase1"
    /\ \E rows \in StoreOrders(SeededRows(TRUE), bucket) : bucket' = FillRows(bucket, rows, 1)
    /\ fpc' = "phase2"
    /\ FeedFrame

Phase2 ==
    /\ fpc = "phase2"
    /\ IF DOMAIN Shortages(bucket) # {}
       THEN \E rows2 \in StoreOrders(SeededRows(FALSE), bucket) : bucket' = FillRows(bucket, rows2, 2)
       ELSE bucket' = bucket
    /\ fpc' = "phase3"
    /\ FeedFrame

Phase3 ==
    /\ fpc = "phase3"
    /\ LET short == Shortages(bucket) IN
       IF DOMAIN short # {}
       THEN \E rows3 \in StoreOrders(RecencyRows(MaxOf({short[c] : c \in DOMAIN short})),
                                     bucket) :
               bucket' = FillRows(bucket, rows3, 3)
       ELSE bucket' = bucket
    /\ fpc' = "respond"
    /\ FeedFrame

\* a variant whose sort is by count alone, ties staying in DISPLAY_CATEGORIES order
SortsBeforeDisplayOrder(d, c) ==
    LET pos(x) == CHOOSE i \in DOMAIN DISPLAY_CATEGORIES : DISPLAY_CATEGORIES[i] = x
    IN \/ plan.read_counts[d] > plan.read_counts[c]
       \/ plan.read_counts[d] = plan.read_counts[c] /\ pos(d) < pos(c)

\* sorted(DISPLAY_CATEGORIES, key=lambda c: (-read_counts.get(c, 0), c))
SortsBefore(d, c) ==
    \/ plan.read_counts[d] > plan.read_counts[c]
    \/ plan.read_counts[d] = plan.read_counts[c] /\ LexRank[d] < LexRank[c]

OrderForAll ==
    [i \in 1..Cardinality(Display) |->
        CHOOSE c \in Display : Cardinality({d \in Display : SortsBefore(d, c)}) = i - 1]

Section(c) ==
    [category |-> c, read_today |-> plan.read_counts[c], limit |-> plan.limits[c],
     pinned |-> plan.limits[c] > 3,
     articles |-> [j \in DOMAIN bucket[c] |-> bucket[c][j].id]]

Respond ==
    /\ fpc = "respond"
    /\ response' = [date |-> today, seed |-> plan.seed, order_for_all |-> OrderForAll,
                    sections |-> [i \in DOMAIN OrderForAll |-> Section(OrderForAll[i])]]
    /\ fpc' = "done"
    /\ UNCHANGED <<articles, recent_reads, uid, today, exclude_read, plan, bucket, previous,
                   notFeedVars>>

NoResponse == [seed |-> 0]

\* the same user asks again, on the same day and the same data
Reinvoke ==
    /\ fpc = "done"
    /\ previous = NoResponse
    /\ previous' = response
    /\ response' = NoResponse
    /\ plan' = [seed |-> 0]
    /\ bucket' = <<>>
    /\ fpc' = "start"
    /\ UNCHANGED <<articles, recent_reads, uid, today, exclude_read, notFeedVars>>

AllAges == {Old, Recent, Edge, Undated}

InitFeed ==
    /\ \E ages \in {f \in [FeedIds -> AllAges] : \A id \in FeedIds : f[id] \in AgeChoices(id)} :
          articles = [id \in FeedIds |->
                         [category |-> RawCategory(id),
                          published_at |-> ages[id].published_at,
                          scraped_at |-> ages[id].scraped_at]]
    /\ \E r \in [ReadableIds -> ReadChoices], g \in GhostChoices :
          recent_reads = [id \in ReadableIds \cup GhostIds |->
                             IF id \in ReadableIds THEN r[id]
                             ELSE IF id = "pol900" THEN g[1] ELSE g[2]]
    /\ uid \in FeedUsers
    /\ today \in FeedDays
    /\ exclude_read \in BOOLEAN
    /\ fpc = "start"
    /\ plan = [seed |-> 0]
    /\ bucket = <<>>
    /\ response = NoResponse
    /\ previous = NoResponse
    /\ ReadIdle
    /\ NormIdle
    /\ http = [op |-> "none"]
    /\ LaterIdle
    /\ StatIdle

NextFeed ==
    \/ Plan
    \/ Phase1
    \/ Phase2
    \/ Phase3
    \/ Respond

SpecFeed == InitFeed /\ [][NextFeed]_vars

\* snapshots in which the user may have read three of the four Politics articles
FillReadableIds == {"pol001", "pol002", "pol003"}

InitFeedFill ==
    /\ \E ages \in {f \in [FeedIds -> AllAges] : \A id \in FeedIds : f[id] \in AgeChoices(id)} :
          articles = [id \in FeedIds |->
                         [category |-> RawCategory(id),
                          published_at |-> ages[id].published_at,
                          scraped_at |-> ages[id].scraped_at]]
    /\ \E r \in [FillReadableIds -> ReadChoices], g \in GhostChoices :
          recent_reads = [id \in FillReadableIds \cup GhostIds |->
                             IF id \in FillReadableIds THEN r[id]
                             ELSE IF id = "pol900" THEN g[1] ELSE g[2]]
    /\ uid \in FeedUsers
    /\ today \in FeedDays
    /\ exclude_read \in BOOLEAN
    /\ fpc = "start"
    /\ plan = [seed |-> 0]
    /\ bucket = <<>>
    /\ response = NoResponse
    /\ previous = NoResponse
    /\ ReadIdle
    /\ NormIdle
    /\ http = [op |-> "none"]
    /\ LaterIdle
    /\ StatIdle

SpecFeedFill == InitFeedFill /\ [][NextFeed]_vars

\* two calls on one snapshot, for the snapshots of one day in which pol002 is
\* old, pol004 has no timestamp and eco001 is in the window
InitFeedTwice ==
    /\ InitFeed
    /\ today = 1
    /\ articles["pol002"].published_at # NoAge
    /\ articles["pol004"].published_at = NoAge
    /\ articles["eco001"].published_at = NoAge

NextFeedTwice ==
    \/ NextFeed
    \/ Reinvoke

SpecFeedTwice == InitFeedTwice /\ [][NextFeedTwice]_vars

----------------------------------------------------------------------------
(* UserService.usage_hourly                                                 *)
(* Time is in seconds; second 0 of the local (Asia/Seoul) time line is a    *)
(* Monday 00:00, and the stored timestamps are naive UTC.                    *)

MaxSessions == 2        \* user_sessions rows of the user

HourSeconds == 3600
DaySeconds == 86400
KstOffset == 32400      \* Asia/Seoul is UTC+9, without daylight saving

NoEnd == -1             \* ended_at IS NULL

\* (t AT TIME ZONE 'UTC') AT TIME ZONE 'Asia/Seoul', and back
ToLocal(t) == t + KstOffset
ToUtc(t) == t - KstOffset

TruncHour(t) == (t \div HourSeconds) * HourSeconds
TruncDay(t) == (t \div DaySeconds) * DaySeconds
TruncWeek(t) == (t \div (7 * DaySeconds)) * (7 * DaySeconds)

Least(a, b) == IF a <= b THEN a ELSE b
Greatest(a, b) == IF a >= b THEN a ELSE b

\* params: mode if mode in ("day", "week", "rolling") else "day";
\*         int(days) if days and days > 0 else 1
ModeParam(m) == IF m \in {"day", "week", "rolling"} THEN m ELSE "day"
DaysParam(d) == IF d > 0 THEN d ELSE 1

\* CTE bounds, for the local now
UsageBounds(m, d, now_local) ==
    CASE m = "week" -> [start_local |-> TruncWeek(now_local),
                        end_local |-> TruncWeek(now_local) + 7 * DaySeconds]
      [] m = "rolling" -> [start_local |-> now_local - d * DaySeconds,
                           end_local |-> now_local]
      [] OTHER -> [start_local |-> TruncDay(now_local),
                   end_local |-> TruncDay(now_local) + DaySeconds]

\* CTE sessions_local, one row
SessionLocal(u, now_utc) ==
    [start_local |-> ToLocal(u.started_at),
     end_local |-> ToLocal(IF u.ended_at = NoEnd THEN now_utc ELSE u.ended_at)]

\* CTE clipped: the WHERE clause and the row
Overlaps(s, b) == s.end_local > b.start_local /\ s.start_local < b.end_local
Clipped(s, b) == [s_start |-> Greatest(s.start_local, b.start_local),
                  s_end |-> Least(s.end_local, b.end_local)]

\* generate_series(date_trunc('hour', s_start), date_trunc('hour', s_end - 1 second), 1 hour)
HourSeries(c) ==
    {TruncHour(c.s_start) + k * HourSeconds :
        k \in 0..((TruncHour(c.s_end - 1) - TruncHour(c.s_start)) \div HourSeconds)}

\* a variant that books the whole clipped session on the hour it starts in
BucketSecondsNoSplit(c, h) ==
    IF h = TruncHour(c.s_start) THEN Greatest(c.s_end - c.s_start, 0) ELSE 0

\* CTE expanded / agg: GREATEST(EXTRACT(EPOCH FROM (bucket_end - bucket_real_start)), 0)
BucketSeconds(c, h) ==
    Greatest(Least(c.s_end, h + HourSeconds) - Greatest(c.s_start, h), 0)

\* EXTRACT(HOUR FROM bucket_start)
HourOf(h) == (h \div HourSeconds) % 24

\* the seconds one clipped session adds to hour-of-day hh
SessionHourSeconds(c, hh) ==
    LET mine == {h \in HourSeries(c) : HourOf(h) = hh}
    IN SumOver([h \in mine |-> BucketSeconds(c, h)], mine)

\* CTE agg: SUM(...) GROUP BY hour, over the rows of the user that overlap
RECURSIVE AggSeconds(_, _, _, _)
AggSeconds(rows, b, now_utc, hh) ==
    IF rows = <<>> THEN 0
    ELSE LET s == SessionLocal(Head(rows), now_utc)
         IN (IF Overlaps(s, b) THEN SessionHourSeconds(Clipped(s, b), hh) ELSE 0)
            + AggSeconds(Tail(rows), b, now_utc, hh)

\* round(seconds / 60.0): to the nearest integer, a tie to the even one
PyRoundMinutes(seconds) ==
    LET q == seconds \div 60
        r == seconds % 60
    IN IF r < 30 THEN q
       ELSE IF r > 30 THEN q + 1
       ELSE IF q % 2 = 0 THEN q ELSE q + 1

\* usage_hourly's result: bins[hour] = max(0, round(seconds / 60.0))
usage_hourly(rows, m, d, now_utc) ==
    LET b == UsageBounds(ModeParam(m), DaysParam(d), ToLocal(now_utc))
    IN [hh \in 0..23 |-> Greatest(0, PyRoundMinutes(AggSeconds(rows, b, now_utc, hh)))]

\* the instants sessions start and end at, local, for the midnight m of today:
\* two days ago 23:00, 22:30, 23:50, 00:20, 00:21:30, 00:40 (now)
UsageInstants(m) ==
    <<m - 90000, m - 5400, m - 600, m + 1200, m + 1290, m + 2400>>

\* now: a Wednesday 00:40 and a Monday 00:40, local
UsageNows == {2 * DaySeconds + 2400, 7 * DaySeconds + 2400}

\* the sessions a user may have: closed ones, and unclosed ones
SessionChoices(now_local) ==
    LET at == UsageInstants(TruncDay(now_local))
    IN {[started_at |-> ToUtc(at[ij[1]]), ended_at |-> ToUtc(at[ij[2]])] :
            ij \in {p \in (DOMAIN at) \X (DOMAIN at) : p[1] < p[2]}}
       \cup {[started_at |-> ToUtc(at[i]), ended_at |-> NoEnd] : i \in DOMAIN at}

\* the rows in insertion order: sessions start in the order they are stored
SessionRows(now_local) ==
    UNION {{sq \in [1..n -> SessionChoices(now_local)] :
               \A i \in 1..(n - 1) : sq[i].started_at <= sq[i + 1].started_at}
           : n \in 0..MaxSessions}

\* the (mode, days) arguments
UsageArgs ==
    { <<"day", 1>>, <<"week", 1>>, <<"rolling", 1>>, <<"rolling", 2>>,
      <<"rolling", 0>>, <<"month", 3>> }

InitUsage ==
    /\ \E now_local \in UsageNows, args \in UsageArgs :
         \E rows \in SessionRows(now_local) :
            usage = [op |-> "call", rows |-> rows, now |-> ToUtc(now_local),
                     mode |-> args[1], days |-> args[2]]
    /\ mood = Idle
    /\ classified = Idle
    /\ ingested = Idle
    /\ ReadIdle
    /\ NormIdle
    /\ NewsIdle
    /\ FeedIdle
    /\ StatIdle

UsageHourly ==
    /\ usage.op = "call"
    /\ usage' = [usage EXCEPT !.op = "done"]
                   @@ [bins |-> usage_hourly(usage.rows, usage.mode, usage.days, usage.now)]
    /\ UNCHANGED <<readVars, normVars, newsVars, feedVars, mood, classified, ingested, statVars>>

NextUsage == UsageHourly

SpecUsage == InitUsage /\ [][NextUsage]_vars

----------------------------------------------------------------------------
(* get_user_mood_snapshot                                                   *)
(* user_events.ts is naive UTC, in seconds of the same time line            *)

MaxMoodEvents == 2      \* user_events rows the snapshot reads

BASELINE_STRESS == 50
SNAPSHOT_DAYS == 7

MoodUsers == {1, 2}

\* meta->>'delta': an integer, or a text that is no number
DeltaInt(n) == [t |-> "int", n |-> n]
DeltaText(s) == [t |-> "str", s |-> s]

MoodEvent(u, type, delta, ts_local) ==
    [user_id |-> u, event_type |-> type, delta |-> delta, ts |-> ToUtc(ts_local)]

\* the events of the store, for the midnight m of today: today 00:10 (+6 / -60
\* / stress_delta -4 / an article_open / a delta that is no number / another
\* user's), yesterday 23:50, six days ago, seven days ago inside the rolling
\* window, eight days ago
MoodEventChoices(m) ==
    << MoodEvent(1, "mood", DeltaInt(6), m + 600),
       MoodEvent(1, "mood", DeltaInt(-60), m + 600),
       MoodEvent(1, "stress_delta", DeltaInt(-4), m + 600),
       MoodEvent(1, "article_open", DeltaInt(6), m + 600),
       MoodEvent(1, "mood", DeltaText("high"), m + 600),
       MoodEvent(2, "mood", DeltaInt(6), m + 600),
       MoodEvent(1, "mood", DeltaInt(6), m - 600),
       MoodEvent(1, "mood", DeltaInt(6), m - 6 * DaySeconds + 100),
       MoodEvent(1, "mood", DeltaInt(6), m - 7 * DaySeconds + 80000),
       MoodEvent(1, "mood", DeltaInt(6), m - 8 * DaySeconds) >>

\* now: 00:50 local on the tenth day of the time line
MoodNow == ToUtc(10 * DaySeconds + 3000)

\* the days argument of the request (Query(7, ge=1, le=30))
MoodDaysArgs == {1, 7, 30}

\* a variant that honours the caller's window size
SnapshotDaysFromCaller(days) == days

\* days = 7
SnapshotDays(days) == SNAPSHOT_DAYS

\* a variant that takes the day of the stored (UTC) timestamp
MoodDayUtc(ts) == ts \div DaySeconds

\* to_char(date_trunc('day', ts AT TIME ZONE 'UTC' AT TIME ZONE 'Asia/Seoul')), as a day number
MoodDay(ts) == TruncDay(ToLocal(ts)) \div DaySeconds

\* CASE WHEN delta_text ~ '^-?[0-9]+(\.[0-9]+)?$' THEN delta_text::numeric ELSE 0.0
DeltaNumber(delta) == IF delta.t = "int" THEN delta.n ELSE 0

\* the rows the query selects
MoodSelected(evs, u, window_start) ==
    {i \in DOMAIN evs : /\ evs[i].user_id = u
                        /\ evs[i].event_type \in {"mood", "stress_delta"}
                        /\ ToLocal(evs[i].ts) >= window_start}

\* m.get(d, 0.0): sum_delta of the group of day d
MoodSum(evs, sel, d) ==
    LET mine == {i \in sel : MoodDay(evs[i].ts) = d}
    IN SumOver([i \in mine |-> DeltaNumber(evs[i].delta)], mine)

\* a variant whose thresholds are exclusive
MoodWordExclusive(s) ==
    IF s < 20 THEN "very calm"
    ELSE IF s < 40 THEN "calm"
    ELSE IF s < 60 THEN "neutral"
    ELSE IF s < 80 THEN "tense"
    ELSE "anxious"

\* if s <= 20 ... elif s <= 40 ... elif s <= 60 ... elif s <= 80 ... else ...
\* (the words stand for the source's; each comes with its emoji)
MoodWord(s) ==
    IF s <= 20 THEN "very calm"
    ELSE IF s <= 40 THEN "calm"
    ELSE IF s <= 60 THEN "neutral"
    ELSE IF s <= 80 THEN "tense"
    ELSE "anxious"

get_user_mood_snapshot(evs, u, days_arg, now) ==
    LET days == SnapshotDays(days_arg)
        seoul_now == ToLocal(now)
        sel == MoodSelected(evs, u, seoul_now - days * DaySeconds)
        today_day == TruncDay(seoul_now) \div DaySeconds
        days_list == [k \in 1..days |->
                         [date |-> today_day - (days - k),
                          score |-> BASELINE_STRESS + MoodSum(evs, sel, today_day - (days - k))]]
        today_score == IF days_list # <<>> THEN days_list[Len(days_list)].score
                       ELSE BASELINE_STRESS
    IN [date |-> today_day,
        score |-> today_score,
        word |-> MoodWord(today_score),
        days |-> days_list,
        baseline |-> BASELINE_STRESS]

\* the rows of user_events, in the order they were appended
MoodRows ==
    LET choices == MoodEventChoices(TruncDay(ToLocal(MoodNow)))
    IN UNION {{[k \in 1..n |-> choices[ix[k]]] :
                  ix \in {f \in [1..n -> DOMAIN choices] :
                             \A k \in 1..(n - 1) : f[k] <= f[k + 1]}}
              : n \in 0..MaxMoodEvents}

InitMood ==
    /\ \E evs \in MoodRows, u \in MoodUsers, d \in MoodDaysArgs :
          mood = [op |-> "call", events |-> evs, user |-> u, days |-> d, now |-> MoodNow]
    /\ usage = Idle
    /\ classified = Idle
    /\ ingested = Idle
    /\ ReadIdle
    /\ NormIdle
    /\ NewsIdle
    /\ FeedIdle
    /\ StatIdle

MoodSnapshot ==
    /\ mood.op = "call"
    /\ mood' = [mood EXCEPT !.op = "done"]
                  @@ [snapshot |-> get_user_mood_snapshot(mood.events, mood.user,
                                                          mood.days, mood.now)]
    /\ UNCHANGED <<readVars, normVars, newsVars, feedVars, usage, classified, ingested, statVars>>

\* one mood event of today whose delta moves the score across the bands
MaxDelta == 60
BandDeltas == (0 - MaxDelta)..MaxDelta

InitBand ==
    /\ \E d \in BandDeltas, days \in MoodDaysArgs :
          mood = [op |-> "call",
                  events |-> <<MoodEvent(1, "mood", DeltaInt(d), TruncDay(ToLocal(MoodNow)) + 600)>>,
                  user |-> 1, days |-> days, now |-> MoodNow]
    /\ usage = Idle
    /\ classified = Idle
    /\ ingested = Idle
    /\ ReadIdle
    /\ NormIdle
    /\ NewsIdle
    /\ FeedIdle
    /\ StatIdle

NextMood == MoodSnapshot

SpecMood == InitMood /\ [][NextMood]_vars

SpecBand == InitBand /\ [][NextMood]_vars

----------------------------------------------------------------------------
(* The category classifiers: normalize_category and the feed's label_case   *)

ClassifyIds == {"eco001", "pol001", "soc001", "lif001", "sci001", "int001", "n00001"}

\* article_id[:3]
IdPrefix(id) ==
    CASE id = "eco001" -> "eco"
      [] id = "pol001" -> "pol"
      [] id = "soc001" -> "soc"
      [] id = "lif001" -> "lif"
      [] id = "sci001" -> "sci"
      [] id = "int001" -> "int"
      [] id = "ECO001" -> "ECO"
      [] id = "Pol001" -> "Pol"
      [] OTHER -> "n00"

\* how ILIKE compares a prefix: without regard to letter case
Lower(p) ==
    CASE p = "ECO" -> "eco"
      [] p = "Pol" -> "pol"
      [] OTHER -> p

\* original_article.category: the canonical labels, the aliases, a category
\* that is neither, the empty string and NULL
RawCategories ==
    Display \cup {"life/culture", "IT/science", "IT", "international", "sports", "", NoCategory}

\* a variant of normalize_category that compares the prefix as ILIKE does
normalize_categoryAnyCase(article_id, category) ==
    IF PrefixLabel(Lower(IdPrefix(article_id))) # "NULL"
    THEN PrefixLabel(Lower(IdPrefix(article_id)))
    ELSE IF category = "life/culture" THEN "Culture"
    ELSE IF category \in {"IT/science", "IT"} THEN "Science"
    ELSE IF category = "international" THEN "World"
    ELSE IF category \in {NoCategory, ""} THEN "Other"
    ELSE category

\* normalize_category(article_id, category)
normalize_category(article_id, category) ==
    IF PrefixLabel(IdPrefix(article_id)) # "NULL" THEN PrefixLabel(IdPrefix(article_id))
    ELSE IF category = "life/culture" THEN "Culture"
    ELSE IF category \in {"IT/science", "IT"} THEN "Science"
    ELSE IF category = "international" THEN "World"
    ELSE IF category \in {NoCategory, ""} THEN "Other"      \* category or Other
    ELSE category

\* get_home_feed's label_case for a row (id, category)
label_case_row(article_id, category) ==
    IF PrefixLabel(Lower(IdPrefix(article_id))) # "NULL"
    THEN PrefixLabel(Lower(IdPrefix(article_id)))
    ELSE IF CategoryLabel(category) # "NULL" THEN CategoryLabel(category)
    ELSE IF category = NoCategory THEN "Other"              \* COALESCE(a.category, Other)
    ELSE category

\* counts_sql's label for a read of the row (id, category): NULL when neither
\* CASE matches
counts_label_row(article_id, category) ==
    IF PrefixLabel(Lower(IdPrefix(article_id))) # "NULL"
    THEN PrefixLabel(Lower(IdPrefix(article_id)))
    ELSE CategoryLabel(category)

\* get_user_field_stats' label_expr for a row (id, category), then r.label or Other
field_label_row(article_id, category) ==
    LET label == IF PrefixLabel(Lower(IdPrefix(article_id))) # "NULL"
                 THEN PrefixLabel(Lower(IdPrefix(article_id)))
                 ELSE IF CategoryLabel(category) # "NULL" THEN CategoryLabel(category)
                 ELSE IF category = NoCategory THEN "Other"
                 ELSE category
    IN IF label = "" THEN "Other" ELSE label

InitClassify ==
    /\ \E id \in ClassifyIds, c \in RawCategories :
          classified = [op |-> "call", article_id |-> id, category |-> c]
    /\ usage = Idle
    /\ mood = Idle
    /\ ingested = Idle
    /\ ReadIdle
    /\ NormIdle
    /\ NewsIdle
    /\ FeedIdle
    /\ StatIdle

Classify ==
    /\ classified.op = "call"
    /\ classified' = [op |-> "done", article_id |-> classified.article_id,
                      category |-> classified.category,
                      normalized |-> normalize_category(classified.article_id,
                                                        classified.category),
                      label |-> label_case_row(classified.article_id, classified.category),
                      read_label |-> counts_label_row(classified.article_id,
                                                      classified.category),
                      field_label |-> field_label_row(classified.article_id,
                                                      classified.category)]
    /\ UNCHANGED <<readVars, normVars, newsVars, feedVars, usage, mood, ingested, statVars>>

NextClassify == Classify

SpecClassify == InitClassify /\ [][NextClassify]_vars

\* the same rows, and rows whose id has the prefix in another letter case
AgreeIds == ClassifyIds \cup {"ECO001", "Pol001"}

InitAgree ==
    /\ \E id \in AgreeIds, c \in RawCategories :
          classified = [op |-> "call", article_id |-> id, category |-> c]
    /\ usage = Idle
    /\ mood = Idle
    /\ ingested = Idle
    /\ ReadIdle
    /\ NormIdle
    /\ NewsIdle
    /\ FeedIdle
    /\ StatIdle

SpecAgree == InitAgree /\ [][NextClassify]_vars

----------------------------------------------------------------------------
(* ingest_events: the handler and the service function                      *)

MaxBatch == 3           \* events of one request

Http201 == 201

NotAnInt == -1          \* int(...) raised

\* EventItem.user_id after the validator's str(v)
UserIdTexts == {"1", "2", " 7 ", "abc", "1.5", ""}

\* int(e.get("user_id")): the value, or NotAnInt for a ValueError
PyInt(s) ==
    CASE s = "1" -> 1
      [] s = "2" -> 2
      [] s = " 7 " -> 7
      [] OTHER -> NotAnInt

EventItem(uid_text, type) == [user_id |-> uid_text, event_type |-> type]

Batches ==
    UNION {[1..n -> {EventItem(u, "scroll") : u \in UserIdTexts}] : n \in 0..MaxBatch}

\* the UserEvent built for a payload
IngestedEvent(e, now) ==
    [user_id |-> PyInt(e.user_id), event_type |-> e.event_type, article_id |-> "",
     dwell_seconds |-> 0, ts |-> now]

\* for e in items: try int(user_id) except: continue; objs.append(UserEvent(...))
RECURSIVE IngestObjs(_, _)
IngestObjs(items, now) ==
    IF items = <<>> THEN <<>>
    ELSE (IF PyInt(Head(items).user_id) = NotAnInt THEN <<>>
          ELSE <<IngestedEvent(Head(items), now)>>)
         \o IngestObjs(Tail(items), now)

InitIngest ==
    /\ \E b \in Batches : ingested = [op |-> "call", batch |-> b]
    /\ usage = Idle
    /\ mood = Idle
    /\ classified = Idle
    /\ ReadIdle
    /\ NormIdle
    /\ NewsIdle
    /\ FeedIdle
    /\ StatIdle

\* router.ingest_events: 201 {"inserted": service.ingest_events(db, payloads)}
IngestEvents ==
    /\ ingested.op = "call"
    /\ LET objs == IngestObjs(ingested.batch, clock) IN
         /\ events' = events \o objs
         /\ ingested' = [op |-> "done", batch |-> ingested.batch, status |-> Http201,
                         body |-> [inserted |-> Len(objs)]]
    /\ UNCHANGED <<reads, clock, resp, pc, existing, normVars, newsVars, feedVars,
                   usage, mood, classified, statVars>>

NextIngest == IngestEvents

SpecIngest == InitIngest /\ [][NextIngest]_vars

----------------------------------------------------------------------------
(* get_article_stats over the table article_reads *)

\* WHERE article_id = :article_id
StatRows(a) == {i \in DOMAIN reads : reads[i].article_id = a}

\* COUNT(*) over the first n rows of the table
RECURSIVE CountRows(_, _)
CountRows(a, n) ==
    IF n = 0 THEN 0
    ELSE CountRows(a, n - 1) + (IF reads[n].article_id = a THEN 1 ELSE 0)

\* SUM(dwell_seconds) over the first n rows of the table
RECURSIVE SumDwell(_, _)
SumDwell(a, n) ==
    IF n = 0 THEN 0
    ELSE SumDwell(a, n - 1) + (IF reads[n].article_id = a THEN reads[n].dwell_seconds ELSE 0)

\* a variant that counts the users who read the article, not their sessions
get_article_statsDistinctUsers(a) ==
    LET readers == Cardinality({reads[i].user_id : i \in StatRows(a)})
        total == SumDwell(a, Len(reads))
    IN [readers |-> readers, total_dwell |-> total,
        avg_dwell |-> IF readers = 0 THEN 0 ELSE total \div readers]

\* int(count), int(coalesce(sum, 0)), int(coalesce(avg, 0))
get_article_stats(a) ==
    LET readers == CountRows(a, Len(reads))
        total == SumDwell(a, Len(reads))
    IN [readers |-> readers, total_dwell |-> total,
        avg_dwell |-> IF readers = 0 THEN 0 ELSE total \div readers]

\* router.article_stats
ArticleStats(a) ==
    /\ stats' = [op |-> "done", article |-> a, body |-> get_article_stats(a)]
    /\ UNCHANGED <<readVars, normVars, newsVars, feedVars, laterVars, field, hourly, sessions>>

\* the statistics are asked for after any sequence of opens and closes
NextStats ==
    \/ stats = Idle /\ NextRead
    \/ \E a \in ReadArticles : ArticleStats(a)

SpecStats == InitRead /\ [][NextStats]_vars

----------------------------------------------------------------------------
(* get_user_field_stats                                                     *)
(* article_reads.opened_at is naive UTC, in seconds of the usage time line  *)

MaxFieldRows == 2       \* article_reads rows in the table

FieldUser == 7          \* the user_id of the request

\* now(): Tuesday 10:00 in Seoul
FieldNow == ToUtc(DaySeconds + 10 * HourSeconds)

\* opened_at instants: Tuesday 00:30, Monday 23:00 and the Sunday before, Seoul time
OpenedToday == ToUtc(DaySeconds + 1800)
OpenedYesterday == ToUtc(23 * HourSeconds)
OpenedLastWeek == ToUtc(0 - 12 * HourSeconds)

ReadRow(u, a, t, dwell) ==
    [user_id |-> u, article_id |-> a, opened_at |-> t, dwell_seconds |-> dwell]

\* rows of article_reads; pol900 has no row in original_article
FieldRowChoices ==
    {ReadRow(FieldUser, "pol001", OpenedToday, 40),
     ReadRow(FieldUser, "n00001", OpenedToday, 0),
     ReadRow(FieldUser, "n00002", OpenedToday, 30),
     ReadRow(FieldUser, "n00003", OpenedToday, 10),
     ReadRow(FieldUser, "pol900", OpenedToday, 20),
     ReadRow(FieldUser + 1, "eco001", OpenedToday, 50),
     ReadRow(FieldUser, "eco001", OpenedYesterday, 60),
     ReadRow(FieldUser, "pol002", OpenedLastWeek, 5)}

FieldMetrics == {"reads", "dwell"}
FieldModes == {"rolling", "week", "day"}
FieldDays == {1, 8}

\* label_expr: the id prefix by ILIKE, else cat_norm, else COALESCE(category, Other)
field_label(id) ==
    IF PrefixLabel(IlikePrefix(id)) # "NULL" THEN PrefixLabel(IlikePrefix(id))
    ELSE IF CategoryLabel(RawCategory(id)) # "NULL" THEN CategoryLabel(RawCategory(id))
    ELSE IF RawCategory(id) = NoCategory THEN "Other"
    ELSE RawCategory(id)

\* the WHERE on opened_kst for each mode
FieldInWindow(t, m, d, now_utc) ==
    LET opened_kst == ToLocal(t)
        now_kst == ToLocal(now_utc)
    IN CASE m = "day" -> /\ opened_kst >= TruncDay(now_kst)
                         /\ opened_kst < TruncDay(now_kst) + DaySeconds
         [] m = "week" -> TruncWeek(opened_kst) = TruncWeek(now_kst)
         [] OTHER -> opened_kst >= now_kst - d * DaySeconds

\* article_reads JOIN original_article WHERE user_id = :user_id AND the window
FieldBase(rows, u, m, d, now_utc) ==
    {r \in rows : /\ r.article_id \in FeedIds
                  /\ r.user_id = u
                  /\ FieldInWindow(r.opened_at, m, d, now_utc)}

\* GROUP BY label, then counts[r.label or Other] = int(r.value)
FieldCounts(base, metric) ==
    LET labels == {field_label(r.article_id) : r \in base}
        group(l) == {r \in base : field_label(r.article_id) = l}
    IN [l \in labels |->
           IF metric # "dwell" THEN Cardinality(group(l))
           ELSE SumOver([r \in group(l) |-> r.dwell_seconds], group(l))]

\* a variant that reports the labels the query returned, without zero-filling
FieldStatsPresentOnly(counts) ==
    LET present == {i \in DOMAIN DISPLAY_CATEGORIES : DISPLAY_CATEGORIES[i] \in DOMAIN counts}
        nth(k) == CHOOSE i \in present : Cardinality({j \in present : j < i}) = k - 1
    IN [k \in 1..Cardinality(present) |->
           [label |-> DISPLAY_CATEGORIES[nth(k)], value |-> counts[DISPLAY_CATEGORIES[nth(k)]],
            count |-> counts[DISPLAY_CATEGORIES[nth(k)]]]]

\* for cat in DISPLAY_CATEGORIES: c = counts.get(cat, 0)
FieldStats(counts) ==
    [i \in DOMAIN DISPLAY_CATEGORIES |->
        LET cat == DISPLAY_CATEGORIES[i]
            c == IF cat \in DOMAIN counts THEN counts[cat] ELSE 0
        IN [label |-> cat, value |-> c, count |-> c]]

get_user_field_stats(rows, u, d, metric, m, now_utc) ==
    LET fs == FieldStats(FieldCounts(FieldBase(rows, u, m, d, now_utc), metric))
    IN [field_stats |-> fs,
        max_value |-> IF fs = <<>> THEN 0 ELSE MaxOf({fs[i].value : i \in DOMAIN fs}),
        metric |-> metric, mode |-> m, days |-> d]

InitField ==
    /\ \E rows \in {S \in SUBSET FieldRowChoices : Cardinality(S) <= MaxFieldRows},
          metric \in FieldMetrics, m \in FieldModes, d \in FieldDays :
          field = [op |-> "call", rows |-> rows, user |-> FieldUser, metric |-> metric,
                   mode |-> m, days |-> d, now |-> FieldNow]
    /\ stats = Idle
    /\ hourly = Idle
    /\ sessions = Idle
    /\ LaterIdle
    /\ ReadIdle
    /\ NormIdle
    /\ NewsIdle
    /\ FeedIdle

\* router.user_field_stats
UserFieldStats ==
    /\ field.op = "call"
    /\ field' = [field EXCEPT !.op = "done"]
                   @@ [body |-> get_user_field_stats(field.rows, field.user, field.days,
                                                     field.metric, field.mode, field.now)]
    /\ UNCHANGED <<readVars, normVars, newsVars, feedVars, laterVars, stats, hourly, sessions>>

NextField == UserFieldStats

SpecField == InitField /\ [][NextField]_vars

----------------------------------------------------------------------------
(* get_user_hourly_activity                                                 *)
(* timezone('Asia/Seoul', opened_at) on a timestamp without time zone reads *)
(* the stored value as Seoul wall-clock time and yields the instant; the    *)
(* hour EXTRACTed from that instant is its hour in the session's TimeZone.  *)

MaxHourlyRows == 2      \* article_reads rows in the table

\* the TimeZone setting of the database session, in seconds east of UTC:
\* UTC or Asia/Seoul
SessionZones == {0, KstOffset}

HourlyModes == {"rolling", "week"}
HourlyDays == {1, 8}

HourlyRowChoices ==
    {ReadRow(FieldUser, "pol001", OpenedToday, 40),
     ReadRow(FieldUser, "eco001", OpenedToday + 10 * HourSeconds, 0),
     ReadRow(FieldUser, "eco001", OpenedYesterday, 60),
     ReadRow(FieldUser, "pol002", OpenedLastWeek, 5),
     ReadRow(FieldUser + 1, "eco001", OpenedToday, 50)}

\* timezone(KST, t) for a timestamp without time zone, shown in the session's zone
SeoulWallAsInstant(t, zone) == (t - KstOffset) + zone

\* extract('hour', timezone(KST, opened_at))
hour_expr(t, zone) == (SeoulWallAsInstant(t, zone) % DaySeconds) \div HourSeconds

\* the WHERE of each mode; a timestamp without time zone compared with a
\* timestamptz is read in the session's zone
HourlyInWindow(t, m, d, now_utc, zone) ==
    IF m = "week"
    THEN TruncWeek(SeoulWallAsInstant(t, zone)) = TruncWeek(ToLocal(now_utc))
    ELSE t - zone >= now_utc - d * DaySeconds

HourlyBase(rows, u, m, d, now_utc, zone) ==
    {r \in rows : r.user_id = u /\ HourlyInWindow(r.opened_at, m, d, now_utc, zone)}

\* m = {int(r.hour): int(r.cnt)}; bins = m.get(h, 0) for h in range(24); total = sum(m.values())
get_user_hourly_activity(rows, u, d, m, now_utc, zone) ==
    LET base == HourlyBase(rows, u, m, d, now_utc, zone)
        cnt == [h \in {hour_expr(r.opened_at, zone) : r \in base} |->
                   Cardinality({r \in base : hour_expr(r.opened_at, zone) = h})]
    IN [bins |-> [h \in 0..23 |-> IF h \in DOMAIN cnt THEN cnt[h] ELSE 0],
        total |-> SumOver(cnt, DOMAIN cnt)]

InitHourly ==
    /\ \E rows \in {S \in SUBSET HourlyRowChoices : Cardinality(S) <= MaxHourlyRows},
          m \in HourlyModes, d \in HourlyDays, zone \in SessionZones :
          hourly = [op |-> "call", rows |-> rows, user |-> FieldUser, mode |-> m,
                    days |-> d, now |-> FieldNow, zone |-> zone]
    /\ stats = Idle
    /\ field = Idle
    /\ sessions = Idle
    /\ LaterIdle
    /\ ReadIdle
    /\ NormIdle
    /\ NewsIdle
    /\ FeedIdle

\* router.user_hourly_activity
UserHourlyActivity ==
    /\ hourly.op = "call"
    /\ hourly' = [hourly EXCEPT !.op = "done"]
                    @@ [body |-> get_user_hourly_activity(hourly.rows, hourly.user, hourly.days,
                                                          hourly.mode, hourly.now, hourly.zone)]
    /\ UNCHANGED <<readVars, normVars, newsVars, feedVars, laterVars, stats, field, sessions>>

NextHourly == UserHourlyActivity

SpecHourly == InitHourly /\ [][NextHourly]_vars

----------------------------------------------------------------------------
(* UserService.start_session / end_session over the table user_sessions     *)

MaxUserSessions == 2    \* user_sessions rows the model lets be inserted

SessionUsers == {1, 2}

UserSession(u, now) == [user_id |-> u, started_at |-> now, ended_at |-> NoEnd]

\* a row whose started_at is NULL (the column is nullable)
Unstarted(u) == [user_id |-> u, started_at |-> NoTime, ended_at |-> NoEnd]

NoCall == [op |-> "none"]

InitSession ==
    /\ \E rows \in {<<>>, <<Unstarted(1)>>} :
          sessions = [op |-> "ready", rows |-> rows, last |-> NoCall]
    /\ stats = Idle
    /\ field = Idle
    /\ hourly = Idle
    /\ LaterIdle
    /\ ReadIdle
    /\ NormIdle
    /\ NewsIdle
    /\ FeedIdle

SessionFrame ==
    UNCHANGED <<readVars, normVars, newsVars, feedVars, laterVars, stats, field, hourly>>

\* session_start: insert a row, answer 201 with its id
StartSession(u) ==
    /\ Len(sessions.rows) < MaxUserSessions
    /\ sessions' = [sessions EXCEPT
                       !.rows = Append(@, UserSession(u, clock)),
                       !.last = [op |-> "start", user |-> u, now |-> clock,
                                 session_id |-> Len(sessions.rows) + 1]]
    /\ SessionFrame

\* the SELECT by (id, user_id)
SessionMatch(sid, u) ==
    IF sid \in DOMAIN sessions.rows /\ sessions.rows[sid].user_id = u THEN sid ELSE NoRow

\* a variant that stamps ended_at at every call
EndedRowAlwaysNow(row, now) == [row EXCEPT !.ended_at = now]

\* if row.ended_at is None: row.ended_at = now
EndedRow(row, now) == IF row.ended_at = NoEnd THEN [row EXCEPT !.ended_at = now] ELSE row

\* seconds = 0; if started_at is not None: max(0, int((ended_at - started_at).total_seconds()))
SessionSeconds(row) ==
    IF row.started_at # NoTime THEN Max(0, row.ended_at - row.started_at) ELSE 0

\* session_end: end_session, then 404 for a negative result
EndSession(sid, u) ==
    /\ sessions.op = "ready"
    /\ LET found == SessionMatch(sid, u) IN
         IF found = NoRow
         THEN sessions' = [sessions EXCEPT
                              !.last = [op |-> "end", user |-> u, session_id |-> sid,
                                        now |-> clock, ret |-> NotFound, status |-> Http404]]
         ELSE LET row == EndedRow(sessions.rows[found], clock)
              IN sessions' = [sessions EXCEPT
                                 !.rows[found] = row,
                                 !.last = [op |-> "end", user |-> u, session_id |-> sid,
                                           now |-> clock, ret |-> SessionSeconds(row),
                                           status |-> Http200]]
    /\ SessionFrame

NextSession ==
    \/ \E u \in SessionUsers : StartSession(u)
    \/ \E sid \in 1..(MaxUserSessions + 1), u \in SessionUsers : EndSession(sid, u)
    \/ Tick

SpecSession == InitSession /\ [][NextSession]_vars

----------------------------------------------------------------------------
(* Claims about the read sessions *)

\* C5 (as claimed): once a session is closed, a later close_read of the same
\* (read id, user, article) is accepted and leaves closed_at and dwell_seconds
\* as the first close set them.
C5_ClosedSessionIsNotMutatedAgain ==
    [][\A i \in DOMAIN reads :
          reads[i].closed_at # NoTime =>
             /\ reads'[i].closed_at = reads[i].closed_at
             /\ reads'[i].dwell_seconds = reads[i].dwell_seconds
             /\ (resp'.op = "close" /\ resp'.read_id = i
                   /\ resp'.user = reads[i].user_id /\ resp'.article = reads[i].article_id
                      => resp'.ret # NotFound)]_vars

AtMostOneOpen ==
    \A u \in Users, a \in ReadArticles : Cardinality(OpenRows(u, a)) <= 1

\* C6: with calls that do not overlap, at most one session per (user, article)
\* is unclosed, and an open_read issued while one is open returns that session's
\* id and adds neither a row nor an event.  (Only Tick changes the clock, so
\* a step that keeps it and ends with an open response is an open_read call.)
C6_OpenReturnsTheOpenSession ==
    [][/\ AtMostOneOpen'
       /\ (clock' = clock /\ resp'.op = "open" /\ OpenRows(resp'.user, resp'.article) # {}) =>
              /\ resp'.ret \in OpenRows(resp'.user, resp'.article)
              /\ ~resp'.created
              /\ reads' = reads
              /\ events' = events]_vars

C6_Witness ==
    /\ resp.op = "open"
    /\ ~resp.created
    /\ resp.ret \in OpenRows(resp.user, resp.article)

\* C7: the insert does not look again: a handler whose lookup found nothing
\* inserts its row whatever was committed in between, so two handlers that both
\* looked before either committed leave two unclosed rows of one (user, article).
C7_InsertDoesNotLookAgain ==
    [][\A h \in Handlers :
          (pc[h] = "looked" /\ pc'[h] = "idle" /\ existing[h].found = NoRow) =>
             /\ Len(reads') = Len(reads) + 1
             /\ reads'[Len(reads')] =
                   ArticleRead(existing[h].user, existing[h].article, existing[h].now)
             /\ (OpenRows(existing[h].user, existing[h].article) # {} =>
                   Cardinality({i \in DOMAIN reads' :
                                   /\ reads'[i].user_id = existing[h].user
                                   /\ reads'[i].article_id = existing[h].article
                                   /\ reads'[i].closed_at = NoTime}) >= 2)]_vars

C7_TwoOpenSessions ==
    \E u \in Users, a \in ReadArticles : Cardinality(OpenRows(u, a)) >= 2

----------------------------------------------------------------------------
(* Claims about the recommendation normalizer *)

\* C9 (as claimed): the normalizer never raises, whatever the elements of the
\* target array are (string ids, integer ids, null, records).
C9_NormalizerNeverRaises == out.status # "raised"

AttitudeFields == {"attitude", "attitude_confidence"}

\* an output element against the input element at the same index: a record
\* keeps every field, except that the two attitude fields may be added or set;
\* a string id becomes a record holding it as article_id
ElementKept(inEl, outEl) ==
    /\ outEl.t = "dict"
    /\ IF inEl.t = "dict"
       THEN /\ DOMAIN inEl.fields \subseteq DOMAIN outEl.fields
            /\ DOMAIN outEl.fields \subseteq (DOMAIN inEl.fields \cup AttitudeFields)
            /\ \A k \in DOMAIN inEl.fields \ AttitudeFields : outEl.fields[k] = inEl.fields[k]
       ELSE /\ "article_id" \in DOMAIN outEl.fields
            /\ outEl.fields["article_id"] = inEl
            /\ DOMAIN outEl.fields \subseteq ({"article_id"} \cup AttitudeFields)

ArrayKept(inArr, outVal) ==
    /\ outVal.t = "list"
    /\ Len(outVal.items) = Len(inArr)
    /\ \A i \in DOMAIN inArr : ElementKept(inArr[i], outVal.items[i])

\* every key of d other than key is in e with the same value, and e has no other key
SiblingsKept(d, e, key) ==
    /\ e.t = "dict"
    /\ DOMAIN e.fields = DOMAIN d.fields
    /\ \A k \in DOMAIN d.fields \ {key} : e.fields[k] = d.fields[k]

ShapePreserved(inp, outp) ==
    LET loc == locate_array(inp) IN
    CASE loc.parent = "root" -> ArrayKept(loc.arr, outp)
      [] loc.parent = "top" ->
            /\ SiblingsKept(inp, outp, loc.key)
            /\ ArrayKept(loc.arr, outp.fields[loc.key])
      [] loc.parent = "inner" ->
            /\ SiblingsKept(inp, outp, loc.key)
            /\ SiblingsKept(inp.fields[loc.key], outp.fields[loc.key], loc.key)
            /\ ArrayKept(loc.arr, outp.fields[loc.key].fields[loc.key])
      [] OTHER -> outp = inp

----------------------------------------------------------------------------
(* Claims about the article handlers *)

\* C8 (as claimed): when the requested article id is not in the store, get_news
\* and get_news_complete answer NotFound (404).
C8_MissingArticleIsNotFound ==
    (http.op \in {"get_news", "get_news_complete"}
        /\ http.article_id \notin corpus /\ http.article_id \notin failing)
    => http.status = Http404

----------------------------------------------------------------------------
(* Claims about the home feed *)

Filling == fpc \in {"phase2", "phase3", "respond", "done"}

\* C1 (as claimed): no phase appends an article id to a bucket that already
\* holds it: after each of the phases 1, 2 and 3, no bucket holds an id twice.
C1_NoDuplicateInBucket ==
    Filling =>
       \A c \in Display : \A i, j \in DOMAIN bucket[c] :
          i # j => bucket[c][i].id # bucket[c][j].id

\* C2 (as claimed): two calls for the same user, date, exclude_read and data
\* return the same seed, section order and article order, whatever order the
\* store returns the candidate rows in.
C2_SameResponseTwice ==
    (fpc = "done" /\ previous # NoResponse) => response = previous

\* C3: the response has exactly 6 sections, one for each display category and
\* none for another label, and each section holds at most limit articles.
C3_SixSectionsWithinQuota ==
    fpc = "done" =>
       /\ Len(response.sections) = 6
       /\ {response.sections[i].category : i \in DOMAIN response.sections} = Display
       /\ \A i \in DOMAIN response.sections :
             /\ 0 <= Len(response.sections[i].articles)
             /\ Len(response.sections[i].articles) <= response.sections[i].limit
             /\ response.sections[i].limit = plan.limits[response.sections[i].category]

C3_Witness ==
    /\ fpc = "done"
    /\ \E i \in DOMAIN response.sections :
          /\ response.sections[i].category = "Politics"
          /\ response.sections[i].limit = 3
          /\ Len(response.sections[i].articles) = 3
    /\ \E i \in DOMAIN response.sections : Len(response.sections[i].articles) = 0
    /\ \E id \in DOMAIN articles : label_case(id) \notin Display

\* C4: the quota of a category with read count rc is 6 when rc >= 10, 5 when
\* 5 <= rc < 10 and 3 when rc < 5, and max_limit is the largest of the quotas.
C4_QuotaRule ==
    fpc \notin {"start", "idle"} =>
       /\ \A c \in Display :
             LET rc == plan.read_counts[c] IN
             /\ rc >= 10 => plan.limits[c] = 6
             /\ (5 <= rc /\ rc < 10) => plan.limits[c] = 5
             /\ rc < 5 => plan.limits[c] = 3
       /\ \E c \in Display : plan.max_limit = plan.limits[c]
       /\ \A c \in Display : plan.limits[c] <= plan.max_limit

C4_Witness ==
    /\ fpc = "phase1"
    /\ plan.read_counts["Politics"] = 10 /\ plan.limits["Politics"] = 6
    /\ plan.read_counts["Economy"] = 5 /\ plan.limits["Economy"] = 5
    /\ plan.read_counts["Science"] = 0 /\ plan.limits["Science"] = 3
    /\ plan.max_limit = 6

----------------------------------------------------------------------------
(* Claims about attitude injection and target-array location *)

\* the array the output holds at the place where locate_array found the target
OutputArray(inp, outp) ==
    LET loc == locate_array(inp) IN
    IF loc.parent = "root" THEN outp.items
    ELSE IF loc.parent = "top" THEN outp.fields[loc.key].items
    ELSE outp.fields[loc.key].fields[loc.key].items

\* the element's id is a string and get_article returned a row for it
LookedUpOk(el) ==
    LET aid == ElementId(ElementObj(el))
    IN aid.t = "str" /\ get_article(aid.s).result = "ok"

\* C11: injection is per id: an element whose lookup failed or found nothing
\* comes back without injected attitude fields, every element whose id was
\* looked up successfully carries the row's attitude and attitude_confidence,
\* and a failing lookup never makes the normalizer raise.
C11_InjectionIsolatedPerId ==
    LET loc == locate_array(payload) IN
    /\ (out.status = "returned" /\ loc.parent # "none") =>
          \A i \in DOMAIN loc.arr :
             LET obj == ElementObj(loc.arr[i])
                 res == OutputArray(payload, out.value)[i]
             IN IF LookedUpOk(loc.arr[i])
                THEN /\ AttitudeFields \subseteq DOMAIN res.fields
                     /\ res.fields["attitude"] = AttitudeRow(ElementId(obj).s).attitude
                     /\ res.fields["attitude_confidence"]
                           = AttitudeRow(ElementId(obj).s).attitude_confidence
                     /\ \A k \in DOMAIN obj.fields \ AttitudeFields :
                           res.fields[k] = obj.fields[k]
                ELSE res = obj
    /\ (out.status # "none" /\ loc.parent # "none"
          /\ \A i \in DOMAIN loc.arr : loc.arr[i].t \in {"str", "dict"})
       => out.status = "returned"

\* a failing lookup comes first and a successful one after it
C11_Witness ==
    /\ out.status = "returned"
    /\ locate_array(payload).parent # "none"
    /\ Len(locate_array(payload).arr) = 2
    /\ ~LookedUpOk(locate_array(payload).arr[1])
    /\ ElementId(ElementObj(locate_array(payload).arr[1])).t = "str"
    /\ ElementId(ElementObj(locate_array(payload).arr[1])).s \in failing
    /\ LookedUpOk(locate_array(payload).arr[2])
    /\ "attitude" \in DOMAIN OutputArray(payload, out.value)[2].fields
    /\ "attitude" \notin DOMAIN OutputArray(payload, out.value)[1].fields

\* a payload in which locate_array has nothing to find: no array itself, and if
\* it is keyed, no known key holds an array and neither recommendations nor
\* related_topics holds a keyed value whose same key holds an array
UnrecognizedShape(p) ==
    /\ p.t # "list"
    /\ p.t = "dict" =>
          /\ \A k \in FirstKeySet : k \in DOMAIN p.fields => p.fields[k].t # "list"
          /\ \A k \in {"recommendations", "related_topics"} :
                (k \in DOMAIN p.fields /\ p.fields[k].t = "dict" /\ k \in DOMAIN p.fields[k].fields)
                   => p.fields[k].fields[k].t # "list"

\* C12: for a payload of unrecognized shape the normalizer returns its input
\* unchanged, looks up no attitude and raises nothing.
C12_UnrecognizedIsNoOp ==
    (out.status # "none" /\ UnrecognizedShape(payload))
       => /\ out.status = "returned"
          /\ out.value = payload
          /\ out.lookups = <<>>

\* a payload whose items key nests an array of a stored id under items
C12_Witness ==
    /\ out.status = "returned"
    /\ payload.t = "dict"
    /\ "items" \in DOMAIN payload.fields
    /\ payload.fields["items"].t = "dict"
    /\ "items" \in DOMAIN payload.fields["items"].fields
    /\ payload.fields["items"].fields["items"].t = "list"
    /\ DOMAIN payload.fields = {"items", "total"}
    /\ "pol001" \in corpus \ failing
    /\ out.value = payload

\* the known keys of p, in the order of keys, that hold an array directly / by
\* one level of same-key nesting
DirectAt(p, keys) ==
    {i \in DOMAIN keys : keys[i] \in DOMAIN p.fields /\ p.fields[keys[i]].t = "list"}

NestedAt(p, keys) ==
    {i \in DOMAIN keys :
        /\ keys[i] \in DOMAIN p.fields
        /\ p.fields[keys[i]].t = "dict"
        /\ keys[i] \in DOMAIN p.fields[keys[i]].fields
        /\ p.fields[keys[i]].fields[keys[i]].t = "list"}

\* every element has become a record (string ids are wrapped)
Rewritten(v) == v.t = "list" /\ \A i \in DOMAIN v.items : v.items[i].t = "dict"

\* C13: a payload that is an array is the target; otherwise the first of
\* recommendations, related_topics, similar_articles, articles, items that
\* holds an array; only when none does, payload[key][key] for the first of
\* recommendations, related_topics; and no other value of the payload changes.
C13_LocationPrecedence ==
    LET order == <<"recommendations", "related_topics", "similar_articles", "articles", "items">>
        nest == <<"recommendations", "related_topics">>
    IN out.status = "returned" =>
       CASE payload.t = "list" -> Rewritten(out.value)
         [] payload.t = "dict" /\ DirectAt(payload, order) # {} ->
               LET k == order[Min(DirectAt(payload, order))] IN
               /\ SiblingsKept(payload, out.value, k)
               /\ Rewritten(out.value.fields[k])
         [] payload.t = "dict" /\ DirectAt(payload, order) = {} /\ NestedAt(payload, nest) # {} ->
               LET k == nest[Min(NestedAt(payload, nest))] IN
               /\ SiblingsKept(payload, out.value, k)
               /\ SiblingsKept(payload.fields[k], out.value.fields[k], k)
               /\ Rewritten(out.value.fields[k].fields[k])
         [] OTHER -> out.value = payload

\* recommendations nests an array, related_topics and items hold one directly
C13_Witness ==
    /\ out.status = "returned"
    /\ payload.t = "dict"
    /\ {"recommendations", "related_topics", "items"} \subseteq DOMAIN payload.fields
    /\ payload.fields["recommendations"].t = "dict"
    /\ payload.fields["related_topics"].t = "list"
    /\ payload.fields["items"].t = "list"
    /\ Rewritten(out.value.fields["related_topics"])
    /\ out.value.fields["items"] = payload.fields["items"]
    /\ out.value.fields["recommendations"] = payload.fields["recommendations"]

----------------------------------------------------------------------------
(* Claims about external collaborator failures *)

\* C14: when the recommendation, sentiment or cleansing call times out, fails
\* in transport or is answered with a non-success status, article-complete and
\* bundle of a stored article still answer 200, with an empty or fallback
\* structure in the place of the failed result.
C14_CollaboratorFailureIsSwallowed ==
    /\ (http.op = "get_news_complete" /\ get_article(http.article_id).result = "ok"
          /\ http.reco_call \in CallFailures)
       => /\ http.status = Http200
          /\ http.similar = EmptyDict
          /\ http.topics = EmptyDict
    /\ (http.op = "bundle" /\ get_article(http.article_id).result = "ok"
          /\ {http.senti_call, http.clnz_call, http.reco_call} \subseteq CallFailures)
       => /\ http.status = Http200
          /\ http.sentiment = JNull
          /\ http.summary = JNull
          /\ http.cleaned_html = JNull
          /\ http.recommendations
                = fallback_reco(http.article_id, NewsCategory(http.article_id)).fields["items"]
    /\ (http.op = "bundle" /\ http.status = Http200)
       => /\ http.senti_call \in CallFailures => http.sentiment = JNull
          /\ http.clnz_call \in CallFailures => http.summary = JNull /\ http.cleaned_html = JNull
          /\ http.reco_call \in CallFailures =>
                http.recommendations
                   = fallback_reco(http.article_id, NewsCategory(http.article_id)).fields["items"]
    /\ (http.op = "bundle" /\ http.status # Http200)
       => \/ get_article(http.article_id).result # "ok"
          \/ http.reco_call = "ok"

\* a bundle whose three calls all fail, answered with the fallback items
C14_Witness ==
    /\ http.op = "bundle"
    /\ http.status = Http200
    /\ http.senti_call = "timeout"
    /\ http.clnz_call = "http_error"
    /\ http.reco_call = "transport_error"
    /\ Len(http.recommendations.items) = 2

----------------------------------------------------------------------------
(* Claims about closing a session that is not there *)

\* no row has this id, or the row is of another user or another article
NoSuchSession(rid, u, a) ==
    \/ rid \notin DOMAIN reads
    \/ reads[rid].user_id # u
    \/ reads[rid].article_id # a

\* C15: close_read with a read id that does not exist, or that belongs to
\* another user or another article, is answered NotFound (404) and changes
\* nothing: no session row is modified, no article_close event is appended.
C15_CloseOfMissingSessionIsNotFound ==
    [][(resp'.op = "close" /\ NoSuchSession(resp'.read_id, resp'.user, resp'.article))
          => /\ resp'.ret = NotFound
             /\ close_article(resp'.ret) = Http404
             /\ reads' = reads
             /\ events' = events]_vars

\* a close of an existing session by the wrong user was answered NotFound
C15_Witness ==
    /\ resp.op = "close"
    /\ resp.ret = NotFound
    /\ resp.read_id \in DOMAIN reads
    /\ reads[resp.read_id].user_id # resp.user
    /\ reads[resp.read_id].article_id = resp.article
    /\ reads[resp.read_id].closed_at = NoTime

----------------------------------------------------------------------------
(* Claims about the hourly usage bins *)

\* the aggregation window of a mode, local
UsageWindow(m, d, now_local) ==
    IF m = "week"
    THEN <<TruncWeek(now_local), TruncWeek(now_local) + 7 * DaySeconds>>
    ELSE IF m = "rolling"
    THEN <<now_local - (IF d > 0 THEN d ELSE 1) * DaySeconds, now_local>>
    ELSE <<TruncDay(now_local), TruncDay(now_local) + DaySeconds>>

\* length of the intersection of [a1, a2) and [b1, b2)
Common(a1, a2, b1, b2) == Greatest(0, Least(a2, b2) - Greatest(a1, b1))

\* seconds that row i spends, inside the window, in civil hour hh of any day
SecondsInHour(i, hh) ==
    LET now_local == usage.now + KstOffset
        w == UsageWindow(usage.mode, usage.days, now_local)
        s == usage.rows[i].started_at + KstOffset
        e == IF usage.rows[i].ended_at = NoEnd THEN now_local
             ELSE usage.rows[i].ended_at + KstOffset
        from == Greatest(s, w[1])
        to == Least(e, w[2])
        days == (w[1] \div DaySeconds)..(w[2] \div DaySeconds)
    IN SumOver([d \in days |->
                   Common(from, to, d * DaySeconds + hh * HourSeconds,
                          d * DaySeconds + (hh + 1) * HourSeconds)], days)

TotalInHour(hh) ==
    SumOver([i \in DOMAIN usage.rows |-> SecondsInHour(i, hh)], DOMAIN usage.rows)

\* C16: bin h is the number of minutes nearest to the total time the user's
\* sessions (an unclosed one ending now), clipped to the window of the mode,
\* spend inside civil hour h: one session is split at every hour boundary,
\* sessions in the same hour are summed, sessions outside the window add nothing.
C16_BinsAreMinutesPerCivilHour ==
    usage.op = "done" =>
       \A hh \in 0..23 :
          /\ 60 * usage.bins[hh] - TotalInHour(hh) <= 30
          /\ TotalInHour(hh) - 60 * usage.bins[hh] <= 30

\* a session from 23:50 to 00:20 and an unclosed one since 00:20, at 00:40 on a
\* Wednesday in week mode: 10 minutes in hour 23, 20 + 20 in hour 0
C16_Witness ==
    /\ usage.op = "done"
    /\ usage.mode = "week"
    /\ TruncWeek(usage.now + KstOffset) < TruncDay(usage.now + KstOffset)
    /\ Len(usage.rows) = 2
    /\ usage.rows[1] = [started_at |-> TruncDay(usage.now + KstOffset) - 600 - KstOffset,
                        ended_at |-> TruncDay(usage.now + KstOffset) + 1200 - KstOffset]
    /\ usage.rows[2].ended_at = NoEnd
    /\ usage.rows[2].started_at = TruncDay(usage.now + KstOffset) + 1200 - KstOffset
    /\ usage.bins[23] = 10
    /\ usage.bins[0] = 40
    /\ \A hh \in 1..22 : usage.bins[hh] = 0

----------------------------------------------------------------------------
(* Claims about the mood snapshot *)

\* the events of the user that carry a mood delta and whose local day is d
MoodEventsOn(d) ==
    {i \in DOMAIN mood.events :
        /\ mood.events[i].user_id = mood.user
        /\ mood.events[i].event_type \in {"mood", "stress_delta"}
        /\ mood.events[i].delta.t = "int"
        /\ (mood.events[i].ts + KstOffset) \div DaySeconds = d}

\* C17: the score of each listed day is 50 plus the sum of the mood deltas
\* whose local timestamp falls on that day, unclamped and independent of the
\* other days; without deltas it is exactly 50.
C17_ScoreIsBaselinePlusDayDeltas ==
    mood.op = "done" =>
       /\ \A k \in DOMAIN mood.snapshot.days :
             LET on == MoodEventsOn(mood.snapshot.days[k].date)
             IN mood.snapshot.days[k].score
                   = 50 + SumOver([i \in on |-> mood.events[i].delta.n], on)
       /\ mood.snapshot.score = mood.snapshot.days[Len(mood.snapshot.days)].score
       /\ mood.snapshot.date = mood.snapshot.days[Len(mood.snapshot.days)].date

\* a single +6 recorded today: today is 56, every other day 50
C17_Witness ==
    /\ mood.op = "done"
    /\ Len(mood.events) = 1
    /\ mood.events[1].delta = DeltaInt(6)
    /\ mood.events[1].user_id = mood.user
    /\ mood.events[1].event_type = "mood"
    /\ (mood.events[1].ts + KstOffset) \div DaySeconds = (mood.now + KstOffset) \div DaySeconds
    /\ mood.snapshot.score = 56
    /\ \A k \in 1..(Len(mood.snapshot.days) - 1) : mood.snapshot.days[k].score = 50

----------------------------------------------------------------------------
(* Claims about classification *)

CanonicalOrOther == {"Economy", "Politics", "Society", "Culture", "World", "Science", "Other"}

KnownPrefixes == {"eco", "pol", "soc", "lif", "sci", "int"}
KnownAliases == {"life/culture", "IT/science", "IT", "international"}

\* C19 (as claimed): classification always yields one of the six canonical
\* labels or Other; without a known id prefix, a raw category that is neither
\* an alias nor a canonical label (a missing one included) is labelled Other.
C19_ClassifyYieldsCanonicalOrOther ==
    classified.op = "done" =>
       /\ classified.normalized \in CanonicalOrOther
       /\ classified.label \in CanonicalOrOther
       /\ (/\ IdPrefix(classified.article_id) \notin KnownPrefixes
           /\ classified.category \notin KnownAliases
           /\ classified.category \notin (CanonicalOrOther \ {"Other"}))
          => classified.normalized = "Other" /\ classified.label = "Other"

----------------------------------------------------------------------------
(* Claims about batch ingest *)

\* the records of the batch whose user id is no integer
Malformed == {i \in DOMAIN ingested.batch : ingested.batch[i].user_id \in {"abc", "1.5", ""}}

\* C20 (as claimed): each record with a malformed user id is reported as a
\* validation failure and is not stored, every other record of the batch is
\* stored as one event, and the returned count is the number of stored records.
C20_MalformedRecordsAreReported ==
    ingested.op = "done" =>
       /\ Len(events) = Len(ingested.batch) - Cardinality(Malformed)
       /\ ingested.body.inserted = Len(events)
       /\ Malformed # {} =>
             \/ ingested.status # 201
             \/ DOMAIN ingested.body # {"inserted"}

----------------------------------------------------------------------------
(* Claims about the article statistics *)

\* the one session of article a, closed d seconds after it was opened
OnlySessionClosedAfter(a, d) ==
    \E i \in DOMAIN reads :
        /\ StatRows(a) = {i}
        /\ reads[i].closed_at # NoTime
        /\ reads[i].closed_at - reads[i].opened_at = d

\* C21: article-stats counts the read sessions of the article and sums their
\* dwell seconds; for an article whose only session was closed d seconds after
\* it was opened it answers readers = 1, total_dwell = d, avg_dwell = d.
C21_StatsCountSessionsAndSumDwell ==
    [][\A a \in ReadArticles :
          ArticleStats(a) =>
              /\ stats'.body.readers = Cardinality(StatRows(a))
              /\ stats'.body.total_dwell =
                     SumOver([i \in StatRows(a) |-> reads[i].dwell_seconds], StatRows(a))
              /\ \A d \in 0..MaxClock :
                     OnlySessionClosedAfter(a, d) =>
                         stats'.body = [readers |-> 1, total_dwell |-> d, avg_dwell |-> d]]_vars

C21_Witness ==
    /\ stats # Idle
    /\ \E d \in 1..MaxClock : OnlySessionClosedAfter(stats.article, d)
    /\ stats.body.readers = 1
    /\ stats.body.total_dwell >= 1
    /\ stats.body.avg_dwell = stats.body.total_dwell

----------------------------------------------------------------------------
(* Claims about the paired writes of open_read and close_read *)

\* the rows of article_reads that a step changed
RowsChanged == {i \in DOMAIN reads : reads'[i] # reads[i]}

\* a step that creates a session row appends the article_open event of that row
RowComesWithOpenEvent ==
    Len(reads') = Len(reads) + 1 =>
        LET row == reads'[Len(reads')]
        IN events' = Append(events, OpenEvent(row.user_id, row.article_id, row.opened_at))

\* a step that closes a session row appends the article_close event carrying its dwell
CloseComesWithCloseEvent ==
    RowsChanged # {} =>
        \E i \in RowsChanged :
            /\ RowsChanged = {i}
            /\ Len(reads') = Len(reads)
            /\ events' = Append(events, CloseEvent(reads'[i].user_id, reads'[i].article_id,
                                                   reads'[i].dwell_seconds, reads'[i].closed_at))

\* a step that appends events appends one, and the session row it wrote is in the same state
EventComesWithRow ==
    events' # events =>
        /\ Len(events') = Len(events) + 1
        /\ \A k \in DOMAIN events : events'[k] = events[k]
        /\ \/ /\ events'[Len(events')].event_type = "article_open"
              /\ Len(reads') = Len(reads) + 1
              /\ RowsChanged = {}
           \/ /\ events'[Len(events')].event_type = "article_close"
              /\ Len(reads') = Len(reads)
              /\ \E i \in DOMAIN reads' :
                     /\ RowsChanged \subseteq {i}
                     /\ events'[Len(events')] =
                            CloseEvent(reads'[i].user_id, reads'[i].article_id,
                                       reads'[i].dwell_seconds, reads'[i].closed_at)

\* C22: every commit of open_read that creates a session row appends exactly one
\* article_open event for it, every commit of close_read appends exactly one
\* article_close event whose dwell_seconds is the dwell_seconds stored on the
\* row, and no state shows one write of a pair without the other.
C22_PairedWrites ==
    [][/\ Len(reads') >= Len(reads)
       /\ RowComesWithOpenEvent
       /\ CloseComesWithCloseEvent
       /\ EventComesWithRow]_vars

C22_Witness ==
    \E i \in DOMAIN reads, j, k \in DOMAIN events :
        /\ reads[i].closed_at # NoTime
        /\ reads[i].dwell_seconds >= 1
        /\ j < k
        /\ events[j] = OpenEvent(reads[i].user_id, reads[i].article_id, reads[i].opened_at)
        /\ events[k] = CloseEvent(reads[i].user_id, reads[i].article_id,
                                  reads[i].dwell_seconds, reads[i].closed_at)
        /\ Len(reads) = 2

----------------------------------------------------------------------------
(* Claims about the order of the feed's sections *)

\* the read count the response reports for the i-th section
ReadTodayAt(i) == response.sections[i].read_today

\* C23: order_for_all and sections list the six display categories, each once,
\* by descending read count and, among equal counts, in the lexical order of
\* the labels; the i-th section is the section of order_for_all[i].
C23_SectionsByReadCountThenLabel ==
    fpc = "done" =>
        /\ DOMAIN response.order_for_all = 1..6
        /\ DOMAIN response.sections = 1..6
        /\ {response.order_for_all[i] : i \in 1..6} = Display
        /\ \A i \in 1..6 :
              /\ response.sections[i].category = response.order_for_all[i]
              /\ ReadTodayAt(i) = ReadCounts[response.order_for_all[i]]
        /\ \A i \in 1..5 :
              \/ ReadTodayAt(i) > ReadTodayAt(i + 1)
              \/ /\ ReadTodayAt(i) = ReadTodayAt(i + 1)
                 /\ LexRank[response.order_for_all[i]] < LexRank[response.order_for_all[i + 1]]

\* Politics, read most, comes before Economy, and the unread categories follow
\* in label order
C23_Witness ==
    /\ fpc = "done"
    /\ response.order_for_all = <<"Politics", "Economy", "Science", "Culture", "Society", "World">>
    /\ ReadTodayAt(1) > ReadTodayAt(2)
    /\ ReadTodayAt(2) > ReadTodayAt(3)
    /\ ReadTodayAt(3) = ReadTodayAt(6)

----------------------------------------------------------------------------
(* Claims about the field statistics *)

\* the user's reads of the window whose article exists and is labelled cat
Engagement(cat) ==
    {r \in field.rows : /\ r.user_id = field.user
                        /\ r.article_id \in FeedIds
                        /\ FieldInWindow(r.opened_at, field.mode, field.days, field.now)
                        /\ field_label(r.article_id) = cat}

\* C24: field stats returns the six display labels, each once, with value 0
\* for a label without matching engagement; engagement labelled outside the
\* six is not reported; max_value is the maximum of the six values.
C24_SixLabelsZeroFilled ==
    field.op = "done" =>
        LET fs == field.body.field_stats IN
        /\ DOMAIN fs = 1..6
        /\ {fs[i].label : i \in DOMAIN fs} = Display
        /\ \A i \in DOMAIN fs :
              /\ Engagement(fs[i].label) = {} => fs[i].value = 0
              /\ fs[i].value > 0 => Engagement(fs[i].label) # {}
              /\ fs[i].value <= field.body.max_value
        /\ \E i \in DOMAIN fs : fs[i].value = field.body.max_value

\* a read labelled outside the six labels and a read of Politics, and four
\* labels without engagement
C24_Witness ==
    /\ field.op = "done"
    /\ \E r \in field.rows : r.article_id = "n00002" /\ r.user_id = field.user
    /\ Engagement("sports") # {}
    /\ Engagement("Politics") # {}
    /\ Engagement("Economy") = {}
    /\ field.body.max_value = 40
    /\ \E i \in 1..6 : field.body.field_stats[i] = [label |-> "Economy", value |-> 0, count |-> 0]

----------------------------------------------------------------------------
(* Claims about read articles in the feed *)

\* r.opened_at >= now() - interval '1 day' for a row of the user and the article
OpenedInLastDay(id) == id \in DOMAIN recent_reads /\ recent_reads[id] > 0

\* the entries of a bucket that a given phase appended
EntriesOfPhase(c, phases) == {j \in DOMAIN bucket[c] : bucket[c][j].phase \in phases}

\* C25: with exclude_read, phases 1 and 2 never add an article the user opened
\* in the trailing day; such an article is in a section only through phase 3,
\* and then its category was short of quota after phases 1 and 2.
C25_ReadArticlesOnlyThroughPhase3 ==
    (exclude_read /\ fpc \notin {"idle", "start"}) =>
        \A c \in DOMAIN bucket : \A j \in DOMAIN bucket[c] :
            OpenedInLastDay(bucket[c][j].id) =>
                /\ bucket[c][j].phase = 3
                /\ Cardinality(EntriesOfPhase(c, {1, 2})) < plan.limits[c]

C25_Witness ==
    /\ exclude_read
    /\ fpc = "done"
    /\ \E c \in DOMAIN bucket : \E j \in DOMAIN bucket[c] :
          /\ OpenedInLastDay(bucket[c][j].id)
          /\ bucket[c][j].phase = 3
          /\ EntriesOfPhase(c, {1, 2}) # {}

----------------------------------------------------------------------------
(* Claims about the mood band *)

\* C26: today's score s maps to one band: s <= 20 very calm, 20 < s <= 40
\* calm, 40 < s <= 60 neutral, 60 < s <= 80 tense, s > 80 anxious, for every
\* integer s, below 0 and above 100 included; the baseline 50 is neutral.
C26_BandByFixedThresholds ==
    mood.op = "done" =>
        LET s == mood.snapshot.score
            w == mood.snapshot.word
        IN /\ s = BASELINE_STRESS + mood.events[1].delta.n
           /\ (w = "very calm") = (s <= 20)
           /\ (w = "calm") = (20 < s /\ s <= 40)
           /\ (w = "neutral") = (40 < s /\ s <= 60)
           /\ (w = "tense") = (60 < s /\ s <= 80)
           /\ (w = "anxious") = (s > 80)
           /\ s = BASELINE_STRESS => w = "neutral"

\* a score on a threshold, reached with a score below 0 also in range
C26_Witness ==
    /\ mood.op = "done"
    /\ mood.snapshot.score = 80
    /\ mood.snapshot.word = "tense"
    /\ BASELINE_STRESS - MaxDelta < 0
    /\ BASELINE_STRESS + MaxDelta > 100

----------------------------------------------------------------------------
(* Claims about the hourly activity *)

\* (u + 9) mod 24 for an opened-at stored with UTC hour u
CivilLocalHour(t) == (ToLocal(t) % DaySeconds) \div HourSeconds

\* the user's opens of the window, taken as FieldStats takes them
OpensOfWindow ==
    {r \in hourly.rows :
        /\ r.user_id = hourly.user
        /\ FieldInWindow(r.opened_at, hourly.mode, hourly.days, hourly.now)}

\* all 24 bins are returned and total is their sum
BinsZeroFilledAndTotalled ==
    hourly.op = "done" =>
        /\ DOMAIN hourly.body.bins = 0..23
        /\ \A h \in 0..23 : hourly.body.bins[h] >= 0
        /\ hourly.body.total = SumOver(hourly.body.bins, 0..23)

\* C27 (as claimed): every open of the window is counted in the bin of the
\* Asia/Seoul hour of its opened-at instant, (u + 9) mod 24 for a stored UTC
\* hour u, as FieldStats converts it; the 24 bins are zero-filled and total is
\* their sum.
C27_BinsByCivilLocalHour ==
    hourly.op = "done" =>
        /\ BinsZeroFilledAndTotalled
        /\ \A h \in 0..23 :
              hourly.body.bins[h] =
                  Cardinality({r \in OpensOfWindow : CivilLocalHour(r.opened_at) = h})

----------------------------------------------------------------------------
(* Claims about how full the sections are *)

\* the articles of the corpus that the feed's label expression classifies to c
ClassifiedTo(c) == {id \in DOMAIN articles : label_case(id) = c}

\* C28: after the three phases, every display category with at least quota
\* articles classified to it in the corpus has exactly quota entries in its
\* section, whatever exclude_read and the lookback window are.
C28_SectionsFilledToQuota ==
    fpc = "done" =>
        \A i \in DOMAIN response.sections :
            LET sec == response.sections[i]
            IN /\ Len(sec.articles) <= sec.limit
               /\ Cardinality(ClassifiedTo(sec.category)) >= sec.limit
                      => /\ Len(sec.articles) = sec.limit
                         /\ Len(bucket[sec.category]) = Quota(ReadCounts[sec.category])

\* the user read three of the four Politics articles and excludes them; the
\* section is filled to its quota by phase 3
C28_Witness ==
    /\ fpc = "done"
    /\ exclude_read
    /\ Cardinality(ClassifiedTo("Politics")) = 4
    /\ plan.limits["Politics"] = 3
    /\ Len(bucket["Politics"]) = 3
    /\ EntriesOfPhase("Politics", {1, 2}) # {}
    /\ Cardinality(EntriesOfPhase("Politics", {3})) = 2


----------------------------------------------------------------------------
(* Claims about the agreement of the classifiers *)

\* what the four classifiers made of the row
LabelsGiven ==
    {classified.normalized, classified.label, classified.read_label, classified.field_label}

\* C29 (as claimed): for every (article id, raw category), ids whose prefix
\* differs from the table only in letter case included, normalize_category,
\* the feed's candidate label, the feed's read-count label and the field-stats
\* label are the same label whenever any of them is one of the six canonical
\* labels.
C29_ClassifiersAgree ==
    classified.op = "done" =>
        (LabelsGiven \cap Display # {} => Cardinality(LabelsGiven) = 1)

----------------------------------------------------------------------------
(* Claims about ending a user session *)

\* the step is a call of end_session
EndCalled == sessions'.last.op = "end" /\ sessions'.last # sessions.last

\* C30: ending a session that is already ended keeps its ended_at and returns
\* the duration the first end returned (the time from started_at to that
\* ended_at); end_session for a session id that does not exist or belongs to
\* another user returns NotFound (404) and modifies no session.
C30_EndSessionIsIdempotent ==
    [][/\ \A i \in DOMAIN sessions.rows :
             sessions.rows[i].ended_at # NoEnd => sessions'.rows[i] = sessions.rows[i]
       /\ EndCalled =>
             LET sid == sessions'.last.session_id
                 u == sessions'.last.user
             IN IF sid \in DOMAIN sessions.rows /\ sessions.rows[sid].user_id = u
                THEN /\ sessions'.last.status = Http200
                     /\ sessions'.rows[sid].ended_at # NoEnd
                     /\ sessions'.last.ret =
                           (IF sessions.rows[sid].started_at = NoTime THEN 0
                            ELSE sessions'.rows[sid].ended_at - sessions.rows[sid].started_at)
                     /\ \A i \in DOMAIN sessions.rows :
                           i # sid => sessions'.rows[i] = sessions.rows[i]
                ELSE /\ sessions'.last.ret = NotFound
                     /\ sessions'.last.status = Http404
                     /\ sessions'.rows = sessions.rows]_vars

\* a session ended after one second and ended again a second later: the
\* second end returned the first duration
C30_Witness ==
    /\ sessions.op = "ready"
    /\ sessions.last.op = "end"
    /\ sessions.last.status = Http200
    /\ sessions.last.ret = 1
    /\ sessions.rows[sessions.last.session_id].ended_at < sessions.last.now

=============================================================================
